---- MODULE Spec2Model ----
(***************************************************************************)
(* A model of the academia backend: the generic resource dispatcher        *)
(* (app/util/core.py), the query pipeline (app/util/data.py) and the user  *)
(* resource (app/views/user.py) over a store of users and sessions.        *)
(*                                                                         *)
(* One action models one HTTP request from routing to the response.        *)
(* Exceptions are modelled as values: an operation returns a record whose  *)
(* err field says whether it raised and what.                              *)
(***************************************************************************)
EXTENDS Integers, Sequences, FiniteSets, TLC

VARIABLES
    db,      \* the committed store: [users, sessions, papers, notes] and the id sequences
    req,     \* the request just served
    resp,    \* its response
    calls,   \* the view handlers the dispatcher invoked for it, in order
    g,       \* flask.g after the request: [user, user_set, json_params, params_set]
    built,   \* the query filter_user returned to the list handler (if it ran)
    exc,     \* the exception the except clauses of dispatch_request caught (if any)
    trip,    \* the last dump and load of an entity made outside a request
    permcall \* the last call of check_perm made with rules: its arguments and result

vars == <<db, req, resp, calls, g, built, exc, trip, permcall>>

----------------------------------------------------------------------------
(* Bounds of the model *)

\* Primary keys the autoincrement column hands out
MaxId == 2
\* Sessions stored at the same time
MaxSessions == 2
\* Notes created in all (the largest id of a note)
MaxNotes == 2
\* Papers created in all (the largest id of a paper)
MaxPapers == 2

----------------------------------------------------------------------------
(* Values *)

\* Python's None where an entity (or its primary key) is expected
None == 0

\* config.py
CORS_MAX_AGE == 691200
AUTH_TOKEN_HEADER == "X-Academia-Auth-Token"

\* core.py
HANDLER_TYPES == <<"res_data", "res_action", "inst_data", "inst_action">>

Range(s) == {s[i] : i \in DOMAIN s}

----------------------------------------------------------------------------
(* Bytes, base64 and JSON                                                   *)
(*                                                                         *)
(* A byte string is a sequence of chunks (three bytes each).  A chunk is   *)
(* either raw (numbered) or stands for the whole text of one JSON          *)
(* document.  A base64 text is a sequence of symbols: a group (four        *)
(* alphabet characters coding one chunk), a junk character outside the     *)
(* alphabet, or a lone alphabet character, which leaves the text with a    *)
(* length that is no multiple of four.                                     *)

NoDoc ==
    [keys |-> <<>>, query |-> <<>>, order |-> <<>>, offset |-> 0, limit |-> 0, with |-> <<>>]

RawChunk(n) == [kind |-> "raw", n |-> n, doc |-> NoDoc]
JsonChunk(doc) == [kind |-> "json", n |-> 0, doc |-> doc]

Group(chunk) == [c |-> "group", chunk |-> chunk, q |-> 0]
Junk == [c |-> "junk", chunk |-> RawChunk(0), q |-> 0]
Lone == [c |-> "lone", chunk |-> RawChunk(0), q |-> 0]

\* urllib.parse.quote and unquote.  Every symbol is taken to hold a character
\* that quote escapes ("+", "=" or one outside the alphabet); q counts the
\* escapes still on it.  unquote leaves a text without escapes as it is.
quote(text) == [i \in DOMAIN text |-> [text[i] EXCEPT !.q = @ + 1]]
unquote(text) == [i \in DOMAIN text |-> [text[i] EXCEPT !.q = IF @ > 0 THEN @ - 1 ELSE 0]]

b64encode(bytes) == [i \in DOMAIN bytes |-> Group(bytes[i])]

\* b64decode(s) with validate=False: characters outside the alphabet are
\* discarded; what is left must be whole groups, or binascii.Error is raised.
\* Of an escape "%XX" the two digits are left, which breaks the groups.
b64decode(text) ==
    LET kept == SelectSeq(text, LAMBDA s : s.c # "junk" \/ s.q > 0)
    IN  IF \E i \in DOMAIN kept : kept[i].c = "lone" \/ kept[i].q > 0
        THEN [err |-> TRUE, bytes |-> <<>>]
        ELSE [err |-> FALSE, bytes |-> [i \in DOMAIN kept |-> kept[i].chunk]]

\* json.dumps(doc).encode() and json.loads(bytes.decode())
json_dumps(doc) == <<JsonChunk(doc)>>
json_loads(bytes) ==
    IF Len(bytes) = 1 /\ bytes[1].kind = "json"
    THEN [err |-> FALSE, doc |-> bytes[1].doc]
    ELSE [err |-> TRUE, doc |-> NoDoc]

----------------------------------------------------------------------------
(* Exceptions as values *)

NoErr == [raised |-> FALSE, api |-> FALSE, status |-> 0, type |-> "", exc |-> "", ctx |-> ""]

\* APIError(status, type, **kwargs): ctx is the one context value the error carries
APIError(status, type, ctx) ==
    [raised |-> TRUE, api |-> TRUE, status |-> status, type |-> type,
     exc |-> "APIError", ctx |-> ctx]

\* any other exception, by class name
Raise(cls) ==
    [raised |-> TRUE, api |-> FALSE, status |-> 0, type |-> "", exc |-> cls, ctx |-> ""]

\* "with map_error(target)" around a block that ended with e: every exception
\* the block raised (an APIError too) is replaced by target
map_error(target, e) == IF e.raised THEN target ELSE e

\* "with map_error({cls: target})": only an exception of class cls is replaced
map_error_dict(cls, target, e) ==
    IF e.raised /\ ~e.api /\ e.exc = cls THEN target ELSE e

----------------------------------------------------------------------------
(* The store *)

\* the primary key of a row of a model
PK(model, row) == IF model = "sessions" THEN row.token ELSE row.id

\* get_pk(model, pk): the row with that primary key, or not_found (404)
get_pk(d, model, pk) ==
    LET result == {r \in d[model] : PK(model, r) = pk}
    IN  IF result = {}
        THEN [err |-> APIError(404, "not_found", ""), result |-> {}]
        ELSE [err |-> NoErr, result |-> result]

----------------------------------------------------------------------------
(* Routing: the URL rules register_view adds for a view *)

Digits == {"1", "2", "3", "4"}
ToInt(s) == CASE s = "1" -> 1 [] s = "2" -> 2 [] s = "3" -> 3 [] OTHER -> 4

\* a view argument: absent (None), an integer (<int:..>) or a string (<string:..>)
PhNone == [kind |-> "none", n |-> 0, s |-> ""]
PhInt(n) == [kind |-> "int", n |-> n, s |-> ""]
PhStr(s) == [kind |-> "str", n |-> 0, s |-> s]

\* does a path segment fit a converter, and what does the converter make of it
Fits(conv, seg) == IF conv = "int" THEN seg \in Digits ELSE TRUE
Convert(conv, seg) == IF conv = "int" THEN PhInt(ToInt(seg)) ELSE PhStr(seg)

\* the five rules, in the order register_view adds them; args are the names
\* of the view arguments a match passes (defaults included)
UrlRules ==
    << [shape |-> <<>>,                methods |-> {"GET", "POST", "OPTION"},
        args |-> {"ph1", "ph2"}],
       [shape |-> <<"int">>,           methods |-> {"GET", "OPTION"},
        args |-> {"ph1", "ph2"}],
       [shape |-> <<"string">>,        methods |-> {"GET", "POST", "OPTION"},
        args |-> {"ph1", "ph2"}],
       [shape |-> <<"int", "string">>, methods |-> {"GET", "POST", "OPTION"},
        args |-> {"ph1", "ph2"}],
       [shape |-> <<"int">>,           methods |-> {"PATCH", "DELETE"},
        args |-> {"ph1"}] >>

PathFits(rule, segs) ==
    /\ Len(segs) = Len(rule.shape)
    /\ \A i \in DOMAIN segs : Fits(rule.shape[i], segs[i])

\* The framework's URL matching: the first rule whose path and method both fit.
\* The framework adds OPTIONS to every rule (it is not among the rule's methods)
\* and answers it itself; a path that fits no rule is 404, a path that fits
\* only rules of other methods is 405.
Match(method, segs) ==
    LET fit  == {i \in DOMAIN UrlRules : PathFits(UrlRules[i], segs)}
        full == {i \in fit : method \in UrlRules[i].methods}
        arg(i, k) == IF k <= Len(segs) THEN Convert(UrlRules[i].shape[k], segs[k])
                     ELSE PhNone
    IN  IF fit = {} THEN [outcome |-> "not_found", ph1 |-> PhNone, ph2 |-> PhNone]
        ELSE IF method = "OPTIONS"
        THEN [outcome |-> "automatic_options", ph1 |-> PhNone, ph2 |-> PhNone]
        ELSE IF full = {}
        THEN [outcome |-> "method_not_allowed", ph1 |-> PhNone, ph2 |-> PhNone]
        ELSE LET i == CHOOSE j \in full : \A k \in full : j <= k
             IN  [outcome |-> "view", ph1 |-> arg(i, 1), ph2 |-> arg(i, 2)]

----------------------------------------------------------------------------
(* Handler registration *)

\* The attributes of each view class that a res_data / res_action / inst_data /
\* inst_action decorator tagged: [attr, type, target].  "probe" is a view that
\* declares one handler of each type.
ViewNames == {"users", "probe"}

ViewDict(view) ==
    CASE view = "users" ->
           { [attr |-> "login",  type |-> "res_action", target |-> "login"],
             [attr |-> "logout", type |-> "res_action", target |-> "logout"] }
      [] view \in {"papers", "notes"} ->
           { [attr |-> "toggle_collect_status", type |-> "inst_action",
              target |-> "toggle_collect_status"] }
      [] OTHER ->
           { [attr |-> "stats",   type |-> "res_data",    target |-> "stats"],
             [attr |-> "reindex", type |-> "res_action",  target |-> "reindex"],
             [attr |-> "history", type |-> "inst_data",   target |-> "history"],
             [attr |-> "touch",   type |-> "inst_action", target |-> "touch"] }

\* register_view: per handler type, the tagged attributes found in the class
register_view(view) ==
    [t \in Range(HANDLER_TYPES) |-> {a \in ViewDict(view) : a.type = t}]

\* self._<type>_handlers[name]: the attribute registered under name, or KeyError
Lookup(view, type, name) ==
    LET hit == {a \in register_view(view)[type] : a.target = name}
    IN  IF hit = {} THEN [err |-> Raise("KeyError"), attr |-> ""]
        ELSE [err |-> NoErr, attr |-> (CHOOSE a \in hit : TRUE).attr]

----------------------------------------------------------------------------
(* The entity model seen by the query layer *)

\* Columns of a model class.  A key path is the sequence of the parts of the
\* dotted string ("a.b" is <<"a", "b">>).
Columns(model) ==
    IF model = "users" THEN {"id", "username", "password", "join_date"}
    ELSE {"token", "user"}

\* getattr_keypath(model_class, key_path): the attribute, or the default None
\* as soon as one part is missing.  A column has none of the parts used here.
getattr_keypath(model, key_path) ==
    IF Len(key_path) = 1 /\ key_path[1] \in Columns(model)
    THEN [found |-> TRUE, column |-> key_path[1]]
    ELSE [found |-> FALSE, column |-> ""]

\* byte order of the password hashes
HashRank(s) == CASE s = "h1" -> 1 [] s = "h2" -> 2 [] OTHER -> 0

\* collation of the user names
NameRank(s) == CASE s = "alice" -> 1 [] s = "bob" -> 2 [] s = "carol" -> 3 [] OTHER -> 4

\* the value of a column of a row as the database orders it
SortKey(row, column) ==
    CASE column = "id"        -> row.id
      [] column = "join_date" -> row.join_date
      [] column = "username"  -> NameRank(row.username)
      [] OTHER                -> HashRank(row.password)

----------------------------------------------------------------------------
(* The ORM's query object: built lazily, run by all() *)

Unset == [set |-> FALSE, n |-> 0]
SetTo(n) == [set |-> TRUE, n |-> n]

\* Model.query
NewQuery(model) ==
    [model |-> model, where |-> <<>>, offset |-> Unset, limit |-> Unset,
     order_by |-> <<>>, ops |-> <<>>, executed |-> FALSE]

InvalidRequest == Raise("InvalidRequestError")

\* Query.filter and Query.order_by refuse a query that already has LIMIT or OFFSET
HasLimitOffset(q) == q.limit.set \/ q.offset.set

q_filter(q, exp) ==
    IF HasLimitOffset(q) THEN [err |-> InvalidRequest, q |-> q]
    ELSE [err |-> NoErr,
          q |-> [q EXCEPT !.where = Append(@, exp), !.ops = Append(@, "filter")]]

q_offset(q, n) ==
    [err |-> NoErr, q |-> [q EXCEPT !.offset = SetTo(n), !.ops = Append(@, "offset")]]

q_limit(q, n) ==
    [err |-> NoErr, q |-> [q EXCEPT !.limit = SetTo(n), !.ops = Append(@, "limit")]]

q_order_by(q, terms) ==
    IF HasLimitOffset(q) THEN [err |-> InvalidRequest, q |-> q]
    ELSE [err |-> NoErr,
          q |-> [q EXCEPT !.order_by = @ \o terms, !.ops = Append(@, "order_by")]]

----------------------------------------------------------------------------
(* Filter expressions *)

CompFilters == {"eq", "ne", "gt", "gte", "lt", "lte", "contains"}
LogicalFilters == {"and", "or", "not"}

\* literals: [t |-> "int" or "str", i, s]
IntLit(i) == [t |-> "int", i |-> i, s |-> ""]
StrLit(s) == [t |-> "str", i |-> 0, s |-> s]

\* x LIKE '%sub%' over the user names of the model
Contains(s, sub) ==
    \/ sub = s
    \/ sub = "a" /\ s \in {"alice", "carol", "dave"}
    \/ sub = "b" /\ s = "bob"
    \/ sub = "o" /\ s \in {"bob", "carol"}

\* the table of comparison filters with gte bound to operator.gt
comp_filters_gte_as_gt(name) ==
    CASE name = "eq"  -> "=="  [] name = "ne"  -> "!="
      [] name = "gt"  -> ">"   [] name = "gte" -> ">"
      [] name = "lt"  -> "<"   [] name = "lte" -> "<="
      [] OTHER        -> "contains"

\* __comp_filters[name]: the operator a comparison filter applies
comp_filters(name) ==
    CASE name = "eq"  -> "=="  [] name = "ne"  -> "!="
      [] name = "gt"  -> ">"   [] name = "gte" -> ">="
      [] name = "lt"  -> "<"   [] name = "lte" -> "<="
      [] OTHER        -> "contains"

\* __logical_filters[name]: the conjunction a logical filter applies
logical_filters(name) ==
    CASE name = "and" -> "and_" [] name = "or" -> "or_" [] OTHER -> "not_"

\* a comparison of a column of a row with a literal of the column's type, as
\* the database evaluates it
Compare(op, row, column, lit) ==
    IF lit.t = "str"
    THEN LET v == IF column = "username" THEN row.username ELSE row.password
         IN  CASE op = "=="       -> v = lit.s
               [] op = "!="       -> v # lit.s
               [] op = "contains" -> Contains(v, lit.s)
               [] op = ">"        -> NameRank(v) > NameRank(lit.s)
               [] op = ">="       -> NameRank(v) >= NameRank(lit.s)
               [] op = "<"        -> NameRank(v) < NameRank(lit.s)
               [] OTHER           -> NameRank(v) <= NameRank(lit.s)
    ELSE LET v == SortKey(row, column)
         IN  CASE op = "=="  -> v = lit.i
               [] op = "!="  -> v # lit.i
               [] op = ">"   -> v > lit.i
               [] op = ">="  -> v >= lit.i
               [] op = "<"   -> v < lit.i
               [] op = "<="  -> v <= lit.i
               [] OTHER      -> FALSE

\* the SQL expression objects the builder returns
CmpExp(op, column, lit) == [kind |-> "cmp", op |-> op, column |-> column, lit |-> lit, args |-> <<>>]
\* a Python boolean handed to filter(): WHERE true / WHERE false
ConstExp(b) == [kind |-> "const", op |-> IF b THEN "true" ELSE "false", column |-> "",
                lit |-> IntLit(0), args |-> <<>>]
LogExp(op, args) == [kind |-> "logical", op |-> op, column |-> "", lit |-> IntLit(0), args |-> args]

\* an unknown operator taken for a condition that holds for every row
unknown_filter_ignored(token) == [err |-> NoErr, exp |-> ConstExp(TRUE)]

\* the last statement of the builder: neither table knows the operator
unknown_filter(token) ==
    [err |-> APIError(400, "unknown_query_oper", token), exp |-> LogExp("and_", <<>>)]

RECURSIVE build_filter_exp(_, _)
\* query is <<operator, parameter, ...>>; returns [err, exp]
build_filter_exp(query, model) ==
    IF query[1] \in CompFilters
    THEN LET field == getattr_keypath(model, query[2])
         IN  IF field.found
             THEN [err |-> NoErr,
                   exp |-> CmpExp(comp_filters(query[1]), field.column, query[3])]
             \* the operator is applied to None instead of a column:
             \* None == x and None != x are plain booleans, an ordering of
             \* None raises TypeError, None has no "operate" for contains
             ELSE CASE query[1] = "eq" -> [err |-> NoErr, exp |-> ConstExp(FALSE)]
                    [] query[1] = "ne" -> [err |-> NoErr, exp |-> ConstExp(TRUE)]
                    [] query[1] = "contains" ->
                         [err |-> Raise("AttributeError"), exp |-> LogExp("and_", <<>>)]
                    [] OTHER -> [err |-> Raise("TypeError"), exp |-> LogExp("and_", <<>>)]
    ELSE IF query[1] \in LogicalFilters
    THEN LET nested == [i \in 1..(Len(query) - 1) |-> build_filter_exp(query[i + 1], model)]
             bad == {i \in DOMAIN nested : nested[i].err.raised}
         IN  IF bad # {}
             THEN [err |-> nested[CHOOSE i \in bad : \A j \in bad : i <= j].err,
                   exp |-> LogExp("and_", <<>>)]
             ELSE IF query[1] = "not" /\ Len(nested) # 1
             THEN [err |-> Raise("TypeError"), exp |-> LogExp("and_", <<>>)]
             ELSE [err |-> NoErr,
                   exp |-> LogExp(logical_filters(query[1]),
                                  [i \in DOMAIN nested |-> nested[i].exp])]
    ELSE unknown_filter(query[1])

RECURSIVE Eval(_, _)
\* the value of a built expression on a row
Eval(exp, row) ==
    IF exp.kind = "cmp" THEN Compare(exp.op, row, exp.column, exp.lit)
    ELSE IF exp.kind = "const" THEN exp.op = "true"
    ELSE CASE exp.op = "and_" -> \A i \in DOMAIN exp.args : Eval(exp.args[i], row)
           [] exp.op = "or_"  -> \E i \in DOMAIN exp.args : Eval(exp.args[i], row)
           [] OTHER           -> ~Eval(exp.args[1], row)

----------------------------------------------------------------------------
(* Running a query *)

\* the rows of a table in primary-key order
RECURSIVE Scan(_)
Scan(rows) ==
    IF rows = {} THEN <<>>
    ELSE LET first == CHOOSE r \in rows : \A o \in rows : r.id <= o.id
         IN  <<first>> \o Scan(rows \ {first})

\* ORDER BY terms: does row a sort strictly before row b
RECURSIVE Before(_, _, _)
Before(a, b, terms) ==
    IF terms = <<>> THEN FALSE
    ELSE LET ka == SortKey(a, terms[1].column)
             kb == SortKey(b, terms[1].column)
         IN  IF ka = kb THEN Before(a, b, Tail(terms))
             ELSE IF terms[1].asc THEN ka < kb ELSE ka > kb

\* insert a row into a sorted sequence, after the rows it does not sort before
RECURSIVE Insert(_, _, _)
Insert(row, sorted, terms) ==
    IF sorted = <<>> THEN <<row>>
    ELSE IF Before(row, Head(sorted), terms) THEN <<row>> \o sorted
    ELSE <<Head(sorted)>> \o Insert(row, Tail(sorted), terms)

RECURSIVE SortBy(_, _)
SortBy(rows, terms) ==
    IF rows = <<>> THEN <<>>
    ELSE Insert(rows[Len(rows)], SortBy(SubSeq(rows, 1, Len(rows) - 1), terms), terms)

Drop(rows, n) == SubSeq(rows, n + 1, Len(rows))
Take(rows, n) == SubSeq(rows, 1, IF n < Len(rows) THEN n ELSE Len(rows))

\* SELECT ... WHERE ... ORDER BY ... LIMIT ... OFFSET ...
Rows(q, d) ==
    LET hits    == SelectSeq(Scan(d[q.model]),
                             LAMBDA r : \A i \in DOMAIN q.where : Eval(q.where[i], r))
        ordered == IF q.order_by = <<>> THEN hits ELSE SortBy(hits, q.order_by)
        skipped == IF q.offset.set THEN Drop(ordered, q.offset.n) ELSE ordered
    IN  IF q.limit.set THEN Take(skipped, q.limit.n) ELSE skipped

\* Query.all()
q_all(q, d) == [q |-> [q EXCEPT !.executed = TRUE], rows |-> Rows(q, d)]

----------------------------------------------------------------------------
(* Request Filter Parameters (g.json_params): keys lists, in the order they  *)
(* appear in the document, the keys present with a value other than null    *)

NoParams == NoDoc

\* params.get(key) is not None
Has(params, key) == key \in Range(params.keys)

----------------------------------------------------------------------------
(* The query pipeline *)

filter_handler(query_set, model, params) ==
    IF Has(params, "query") /\ params.query # <<>>
    THEN LET built_exp == build_filter_exp(params.query, model)
         IN  IF built_exp.err.raised THEN [err |-> built_exp.err, q |-> query_set]
             ELSE q_filter(query_set, built_exp.exp)
    ELSE [err |-> NoErr, q |-> query_set]

\* ordering with asc() and desc() exchanged
ordering_handler_exchanged(query_set, model, params) ==
    IF ~Has(params, "order") \/ params.order = <<>>
    THEN [err |-> NoErr, q |-> query_set]
    ELSE LET fields == [i \in DOMAIN params.order |->
                            getattr_keypath(model, params.order[i].path)]
         IN  IF \E i \in DOMAIN fields : ~fields[i].found
             THEN [err |-> Raise("AttributeError"), q |-> query_set]
             ELSE q_order_by(query_set,
                             [i \in DOMAIN fields |->
                                 [column |-> fields[i].column, asc |-> ~params.order[i].asc]])

\* one sort term per (field_keypath, order) pair; None has no asc() / desc()
ordering_handler(query_set, model, params) ==
    IF ~Has(params, "order") \/ params.order = <<>>
    THEN [err |-> NoErr, q |-> query_set]
    ELSE LET fields == [i \in DOMAIN params.order |->
                            getattr_keypath(model, params.order[i].path)]
         IN  IF \E i \in DOMAIN fields : ~fields[i].found
             THEN [err |-> Raise("AttributeError"), q |-> query_set]
             ELSE q_order_by(query_set,
                             [i \in DOMAIN fields |->
                                 [column |-> fields[i].column, asc |-> params.order[i].asc]])

\* pagination testing the truth of limit ("if limit:") instead of its presence
pagination_handler_truthy_limit(query_set, model, params) ==
    LET with_offset == IF Has(params, "offset")
                       THEN q_offset(query_set, params.offset).q ELSE query_set
    IN  IF Has(params, "limit") /\ params.limit # 0
        THEN q_limit(with_offset, params.limit) ELSE [err |-> NoErr, q |-> with_offset]

pagination_handler(query_set, model, params) ==
    LET with_offset == IF Has(params, "offset")
                       THEN q_offset(query_set, params.offset).q ELSE query_set
    IN  IF Has(params, "limit")
        THEN q_limit(with_offset, params.limit) ELSE [err |-> NoErr, q |-> with_offset]

\* the stages with ordering ahead of pagination
user_filters_ordering_first == <<"filter_handler", "ordering_handler", "pagination_handler">>

\* the stages, in the order filter_user runs them
user_filters == <<"filter_handler", "pagination_handler", "ordering_handler">>

RunStage(handler, query_set, model, params) ==
    CASE handler = "filter_handler"     -> filter_handler(query_set, model, params)
      [] handler = "pagination_handler" -> pagination_handler(query_set, model, params)
      [] OTHER                          -> ordering_handler(query_set, model, params)

RECURSIVE RunStages(_, _, _, _)
\* for handler in stages: query_set = handler(query_set, model, params)
\* acc is [err, q, stages]: the error raised (if any), the query so far and the
\* handlers called so far
RunStages(stages, acc, model, params) ==
    IF stages = <<>> \/ acc.err.raised THEN acc
    ELSE LET r == RunStage(Head(stages), acc.q, model, params)
         IN  RunStages(Tail(stages),
                       [err |-> r.err, q |-> r.q, stages |-> Append(acc.stages, Head(stages))],
                       model, params)

filter_user(query_set, model, params) ==
    RunStages(user_filters, [err |-> NoErr, q |-> query_set, stages |-> <<>>], model, params)

----------------------------------------------------------------------------
(* Schemas and request bodies *)

\* UserSchema.calc_password: the PBKDF2 hash of a raw password ("" is null)
calc_password(raw) == CASE raw = "pw1" -> "h1" [] raw = "pw2" -> "h2" [] OTHER -> "h0"

\* A JSON request body: has is the set of its keys; valid is false when a value
\* has the wrong type for its field
NoBody == [has |-> {}, valid |-> TRUE, username |-> "", password |-> "", id |-> 0,
           join_date |-> 0, title |-> "", author |-> 0, paper |-> 0]

\* what get_data() hands to the schema: the request's JSON mapping
get_data(r) == r.body

\* UserSchema.Meta
UserLoadOnly == {"password"}
UserDumpOnly == {"id", "join_date"}

\* load_data(UserSchema, data[, instance=user]): the loaded attribute values.
\* Fields marked dump_only are skipped by the schema's load; a value for one of
\* the Nested fields (all many=True) reaches Nested._deserialize, which raises
\* NotImplementedError before the validation errors are reported.
load_data_user(data, instance) ==
    IF data.has \cap {"papers", "collect_papers", "collect_notes"} # {}
    THEN [err |-> Raise("NotImplementedError"), obj |-> instance]
    ELSE IF ~data.valid THEN [err |-> APIError(400, "arg_fmt", "errors"), obj |-> instance]
    ELSE [err |-> NoErr,
          obj |-> [instance EXCEPT
                     !.username = IF "username" \in data.has THEN data.username ELSE @,
                     !.password = IF "password" \in data.has
                                  THEN calc_password(data.password) ELSE @]]

\* dump_data(UserSchema, user): load_only fields are left out
dump_data_user(user) ==
    [id |-> user.id, username |-> user.username, join_date |-> user.join_date]

\* a User() before it is stored: id and join_date are set by the insert
BlankUser == [id |-> None, username |-> "", password |-> "", join_date |-> 0]

\* handle_prog_error: what a database error inside create / partial_update becomes
handle_prog_error == APIError(400, "logic", "database")

\* db.session.commit() of a new or changed user: username is unique
\* (null, "", excepted)
UniqueUsername(d, user) ==
    \/ user.username = ""
    \/ \A o \in d.users : o.id = user.id \/ o.username # user.username

----------------------------------------------------------------------------
(* The schema load / dump adapter (app/util/data.py) over the schemas of     *)
(* app/schemas.py.  A paper is [id, title, owners] and a note                *)
(* [id, title, author, paper, collectors]: owners and collectors are sets of *)
(* user ids, author and paper an id or None.                                 *)

\* a Nested field of a schema: its name, many=.. and model=..
Rel(name, many, model) == [name |-> name, many |-> many, model |-> model]

NestedFields(schema) ==
    CASE schema = "users" ->
           {Rel("papers", TRUE, "papers"), Rel("collect_papers", TRUE, "papers"),
            Rel("collect_notes", TRUE, "notes")}
      [] schema = "papers" ->
           {Rel("owners", TRUE, "users"), Rel("notes", TRUE, "notes"),
            Rel("collectors", TRUE, "users")}
      [] OTHER ->
           {Rel("author", FALSE, "users"), Rel("paper", FALSE, "papers"),
            Rel("collectors", TRUE, "users")}

\* Meta.load_only and Meta.dump_only of a schema
LoadOnly(schema) == IF schema = "users" THEN UserLoadOnly ELSE {}
DumpOnly(schema) ==
    CASE schema = "users"  -> UserDumpOnly
      [] schema = "papers" -> {"owners", "owngroup", "id"}
      [] OTHER             -> {"id", "collectors", "owngroup"}

\* the relationships the models define (app/models.py): Paper defines no
\* collectors, so User has no collect_papers either, though the schemas
\* declare a field for each
HasAttr(model, name) ==
    /\ ~(model = "papers" /\ name = "collectors")
    /\ ~(model = "users" /\ name = "collect_papers")

\* the primary keys of the rows a relationship of a row leads to
Related(d, model, row, name) ==
    CASE model = "users" /\ name = "papers" ->
           {p.id : p \in {x \in d.papers : row.id \in x.owners}}
      [] model = "users" /\ name = "collect_notes" ->
           {n.id : n \in {x \in d.notes : row.id \in x.collectors}}
      [] model = "papers" /\ name = "owners" -> row.owners
      [] model = "papers" /\ name = "notes" ->
           {n.id : n \in {x \in d.notes : x.paper = row.id}}
      [] model = "notes" /\ name = "author" -> {row.author} \ {None}
      [] model = "notes" /\ name = "paper" -> {row.paper} \ {None}
      [] OTHER -> row.collectors

RECURSIVE Ascending(_)
\* primary keys in the order the database returns them
Ascending(keys) ==
    IF keys = {} THEN <<>>
    ELSE LET least == CHOOSE k \in keys : \A o \in keys : k <= o
         IN  <<least>> \o Ascending(keys \ {least})

\* The Nested-Field Inclusion Tree: a nested mapping of field names, held as
\* the set of the key paths it has (every prefix of a path of the tree is one)
IsUnder(path, root) == Len(path) > Len(root) /\ SubSeq(path, 1, Len(root)) = root

\* setitem_keypath(obj, key_path, {}, True): setdefault creates the mappings
\* on the way, then the last key is assigned a new empty mapping
setitem_keypath(obj, key_path) ==
    {p \in obj : ~IsUnder(p, key_path)}
    \cup {SubSeq(key_path, 1, k) : k \in 1..Len(key_path)}

RECURSIVE nested_fields_of(_)
\* for keypath in nested: setitem_keypath(nested_fields, keypath, {}, True)
nested_fields_of(nested) ==
    IF nested = <<>> THEN {}
    ELSE setitem_keypath(nested_fields_of(SubSeq(nested, 1, Len(nested) - 1)),
                         nested[Len(nested)])

\* "attr in nested_fields" and nested_fields[attr]
HasKey(nested_fields, attr) == \E p \in nested_fields : p[1] = attr
Child(nested_fields, attr) ==
    {Tail(p) : p \in {x \in nested_fields : Len(x) >= 2 /\ x[1] = attr}}

\* what a Nested field serializes to: null, the related primary key(s), or
\* the related entity (entities) in full
NullValue == [form |-> "null", keys |-> <<>>, items |-> <<>>]
\* the entity has no attribute of the field's name: the dump has no such key
MissingValue == [form |-> "missing", keys |-> <<>>, items |-> <<>>]
Collapsed(many, keys) ==
    [form |-> IF many THEN "keys" ELSE "key", keys |-> keys, items |-> <<>>]
Expanded(many, items) ==
    [form |-> IF many THEN "many" ELSE "one", keys |-> <<>>, items |-> items]

\* the fields of a row that are no relationship, as a dump shows them
Scalars(schema, row) ==
    IF schema = "users"
    THEN [id |-> row.id, username |-> row.username, join_date |-> row.join_date, title |-> ""]
    ELSE [id |-> row.id, username |-> "", join_date |-> 0, title |-> row.title]

RowOf(d, model, pk) == CHOOSE r \in d[model] : r.id = pk

RECURSIVE schema_dump(_, _, _, _), Nested_serialize(_, _, _, _, _)
\* Schema.dump of one row: every field of the schema, the Nested ones under
\* the stack of inclusion levels (context["__nested_stack"])
schema_dump(d, schema, row, nested_stack) ==
    [schema |-> schema,
     fields |-> Scalars(schema, row),
     nested |-> [name \in {f.name : f \in NestedFields(schema)} |->
                    Nested_serialize(d, CHOOSE f \in NestedFields(schema) : f.name = name,
                                     schema, row, nested_stack)]]

\* Nested._serialize: the field is expanded when its name is a key of the
\* level on top of the stack; the level below it is pushed for the nested
\* dump only if it is not empty
Nested_serialize(d, field, schema, row, nested_stack) ==
    LET nested_fields == nested_stack[Len(nested_stack)]
        value == Ascending(Related(d, schema, row, field.name))
        nested_nested_fields == Child(nested_fields, field.name)
        inner == IF nested_nested_fields # {}
                 THEN Append(nested_stack, nested_nested_fields) ELSE nested_stack
    IN  IF ~HasAttr(schema, field.name) THEN MissingValue
        ELSE IF ~field.many /\ value = <<>> THEN NullValue
        ELSE IF nested_fields = {} \/ ~HasKey(nested_fields, field.name)
        THEN Collapsed(field.many, value)
        ELSE Expanded(field.many,
                      [i \in DOMAIN value |->
                          schema_dump(d, field.model, RowOf(d, field.model, value[i]), inner)])

\* dump_data(schema, obj, nested, nested_user): params is g.json_params
dump_data(d, schema, row, nested, nested_user, params) ==
    schema_dump(d, schema, row,
                <<nested_fields_of(nested \o (IF nested_user THEN params.with ELSE <<>>))>>)

\* Nested._deserialize: a model instance is taken as it is (instance is set),
\* any other value is looked up as a primary key
Nested_deserialize(d, field, value, instance) ==
    IF field.many THEN [err |-> Raise("NotImplementedError"), pk |-> None]
    ELSE IF instance THEN [err |-> NoErr, pk |-> value]
    ELSE [err |-> get_pk(d, field.model, value).err, pk |-> value]

\* load_data(NoteSchema, data[, instance=note]); author_given is set when the
\* caller put a User instance under "author".  A dump-only field is skipped,
\* a null for a Nested field is a validation error, and an error of a lookup
\* leaves the load at once.
load_data_note(d, data, author_given, instance) ==
    LET author == Nested_deserialize(d, Rel("author", FALSE, "users"), data.author,
                                     author_given)
        paper  == Nested_deserialize(d, Rel("paper", FALSE, "papers"), data.paper, FALSE)
        sent(name) == name \in data.has
    IN  IF sent("author") /\ data.author # None /\ author.err.raised
        THEN [err |-> author.err, obj |-> instance]
        ELSE IF sent("paper") /\ data.paper # None /\ paper.err.raised
        THEN [err |-> paper.err, obj |-> instance]
        ELSE IF \/ ~data.valid
                \/ sent("author") /\ data.author = None
                \/ sent("paper") /\ data.paper = None
        THEN [err |-> APIError(400, "arg_fmt", "errors"), obj |-> instance]
        ELSE [err |-> NoErr,
              obj |-> [instance EXCEPT
                         !.title  = IF sent("title") THEN data.title ELSE @,
                         !.author = IF sent("author") THEN author.pk ELSE @,
                         !.paper  = IF sent("paper") THEN paper.pk ELSE @]]

\* load_data(PaperSchema, data): owners is dump-only, notes and collectors are
\* Nested fields with many=True
load_data_paper(data, instance) ==
    IF data.has \cap {"notes", "collectors"} # {}
    THEN [err |-> Raise("NotImplementedError"), obj |-> instance]
    ELSE IF ~data.valid THEN [err |-> APIError(400, "arg_fmt", "errors"), obj |-> instance]
    ELSE [err |-> NoErr,
          obj |-> [instance EXCEPT !.title = IF "title" \in data.has THEN data.title ELSE @]]

\* the names of the fields of a schema that are no relationship
ScalarNames(schema) ==
    IF schema = "users" THEN {"id", "username", "password", "join_date"} ELSE {"id", "title"}

\* the JSON mapping a dump is, as a request body: load-only fields are not in
\* it, a collapsed Nested field is the related key (or null), or the keys
AsData(dump) ==
    LET key(name) == IF dump.schema = "notes" /\ dump.nested[name].form = "key"
                     THEN dump.nested[name].keys[1] ELSE None
    IN  [NoBody EXCEPT
           !.has = (ScalarNames(dump.schema) \ LoadOnly(dump.schema))
                   \cup {name \in DOMAIN dump.nested : dump.nested[name].form # "missing"},
           !.id = dump.fields.id,
           !.username = dump.fields.username,
           !.join_date = dump.fields.join_date,
           !.title = dump.fields.title,
           !.author = key("author"),
           !.paper = key("paper")]

\* a Paper() before it is stored
BlankPaper == [id |-> None, title |-> "", owners |-> {}]

\* a Note() before it is stored
BlankNote == [id |-> None, title |-> "", author |-> None, paper |-> None, collectors |-> {}]

\* load_data(schema, data) making a new entity
load_data(d, schema, data) ==
    CASE schema = "users"  -> load_data_user(data, BlankUser)
      [] schema = "papers" -> load_data_paper(data, BlankPaper)
      [] OTHER             -> load_data_note(d, data, FALSE, BlankNote)

----------------------------------------------------------------------------
(* Handler results: the store after the handler, the exception it raised   *)
(* (if any) and the fields of the JSON body it returned                    *)

NoBuilt == [ran |-> FALSE, err |-> NoErr, q |-> NewQuery("users"), stages |-> <<>>]

Returned(d, data) ==
    [db |-> d, err |-> NoErr, data |-> data, token |-> <<>>, built |-> NoBuilt, plain |-> FALSE]
Raised(d, e) ==
    [db |-> d, err |-> e, data |-> <<>>, token |-> <<>>, built |-> NoBuilt, plain |-> FALSE]

----------------------------------------------------------------------------
(* Permissions (app/util/perm.py) *)

\* Permission rules: a User, a group, a function (given by the users it
\* returns True for) and a list of rules ("and")
UserRule(id)      == [kind |-> "user",  user |-> id,   allows |-> {}, rules |-> <<>>]
GroupRule         == [kind |-> "group", user |-> None, allows |-> {}, rules |-> <<>>]
FuncRule(allows)  == [kind |-> "func",  user |-> None, allows |-> allows, rules |-> <<>>]
ListRule(rules)   == [kind |-> "list",  user |-> None, allows |-> {}, rules |-> rules]

\* the loop of __perm_rule_tuple from its i-th rule on: authorized = authorized
\* or <the rule>, where verdicts[i] is what the i-th rule answers
RECURSIVE OrLoop(_, _, _)
OrLoop(verdicts, i, authorized) ==
    IF i > Len(verdicts) THEN authorized
    ELSE OrLoop(verdicts, i + 1, authorized \/ verdicts[i])

\* the loop of __perm_rule_list: authorized = authorized and <the rule>
RECURSIVE AndLoop(_, _, _)
AndLoop(verdicts, i, authorized) ==
    IF i > Len(verdicts) THEN authorized
    ELSE AndLoop(verdicts, i + 1, authorized /\ verdicts[i])

\* the tuple handler with authorized = False before the loop
perm_rule_tuple_from_false(verdicts) == OrLoop(verdicts, 1, FALSE)

\* __perm_rule_tuple: authorized = True before the loop
perm_rule_tuple(verdicts) == OrLoop(verdicts, 1, TRUE)

\* __perm_rule_list
perm_rule_list(verdicts) == AndLoop(verdicts, 1, TRUE)

RECURSIVE handle_perm_rule(_, _)
\* __handle_perm_rule for a rule that is no tuple
handle_perm_rule(rule, user) ==
    CASE rule.kind = "user"  -> rule.user = user
      [] rule.kind = "group" -> TRUE
      [] rule.kind = "func"  -> user \in rule.allows
      [] OTHER -> perm_rule_list([i \in DOMAIN rule.rules |->
                                     handle_perm_rule(rule.rules[i], user)])

\* check_perm(*rules, throw=..): the error raised, or the value returned
check_perm_throw(rules, user, throw) ==
    LET authorized == perm_rule_tuple([i \in DOMAIN rules |-> handle_perm_rule(rules[i], user)])
    IN  IF user = None /\ throw
        THEN [err |-> APIError(401, "login_required", ""), authorized |-> FALSE]
        ELSE IF ~authorized /\ throw
        THEN [err |-> APIError(403, "perm_denied", ""), authorized |-> FALSE]
        ELSE [err |-> NoErr, authorized |-> authorized]

\* check_perm(*rules) with throw=True, as auth_required calls it
check_perm(rules, user) == check_perm_throw(rules, user, TRUE).err

\* no call of check_perm made
NoPerm ==
    [ran |-> FALSE, rules |-> <<>>, user |-> None, throw |-> TRUE, err |-> NoErr,
     authorized |-> FALSE]

----------------------------------------------------------------------------
(* UserView *)

UserView_list(d, gg) ==
    LET b == filter_user(NewQuery("users"), "users", gg.json_params)
        built_q == [ran |-> TRUE, err |-> b.err, q |-> b.q, stages |-> b.stages]
    IN  IF b.err.raised THEN [Raised(d, b.err) EXCEPT !.built = built_q]
        ELSE LET users == q_all(b.q, d).rows
             IN  [Returned(d, [i \in DOMAIN users |-> dump_data_user(users[i])])
                    EXCEPT !.built = built_q]

UserView_create(d, r, env) ==
    LET loaded == load_data_user(get_data(r), BlankUser)
        user   == [loaded.obj EXCEPT !.id = d.next_id, !.join_date = env.now]
        \* the sequence behind the id column moves on even when the insert fails
        burnt  == [d EXCEPT !.next_id = @ + 1]
    IN  IF loaded.err.raised THEN Raised(d, loaded.err)
        ELSE IF ~UniqueUsername(d, user)
        THEN Raised(burnt, map_error_dict("ProgrammingError", handle_prog_error,
                                          Raise("ProgrammingError")))
        ELSE Returned([burnt EXCEPT !.users = @ \cup {user}], <<dump_data_user(user)>>)

UserView_retrieve(d, id) ==
    LET found == get_pk(d, "users", id)
    IN  IF found.err.raised THEN Raised(d, found.err)
        ELSE Returned(d, <<dump_data_user(CHOOSE u \in found.result : TRUE)>>)

UserView_partial_update(d, r, id) ==
    LET found  == get_pk(d, "users", id)
        user   == CHOOSE u \in found.result : TRUE
        loaded == load_data_user(get_data(r), user)
    IN  IF found.err.raised THEN Raised(d, found.err)
        ELSE IF loaded.err.raised THEN Raised(d, loaded.err)
        ELSE IF ~UniqueUsername(d, loaded.obj)
        THEN Raised(d, map_error_dict("ProgrammingError", handle_prog_error,
                                      Raise("ProgrammingError")))
        ELSE Returned([d EXCEPT !.users = (@ \ {user}) \cup {loaded.obj}],
                      <<dump_data_user(loaded.obj)>>)

\* destroy without its commit: the answer is a success, the store is as before
UserView_destroy_uncommitted(d, id) ==
    LET found == get_pk(d, "users", id)
    IN  IF found.err.raised THEN Raised(d, found.err) ELSE Returned(d, <<>>)

\* deleting a user leaves its sessions stored, with no user (the foreign key
\* declared by foreign_key() has no delete cascade: the ORM sets it to null)
UserView_destroy(d, id) ==
    LET found == get_pk(d, "users", id)
    IN  IF found.err.raised THEN Raised(d, found.err)
        ELSE Returned([d EXCEPT
                         !.users = @ \ found.result,
                         !.sessions = {IF x.user = id THEN [x EXCEPT !.user = None] ELSE x
                                       : x \in @},
                         !.papers = {[x EXCEPT !.owners = @ \ {id}] : x \in @},
                         !.notes = {[x EXCEPT !.author = IF @ = id THEN None ELSE @,
                                              !.collectors = @ \ {id}] : x \in @}],
                      <<>>)

\* get_by(User, username=.., password=.., error=..): the first match
\* login storing the session before it looks the user up
UserView_login_session_first(d, r, env) ==
    LET data  == r.body
        match == {u \in d.users : /\ u.username = data.username
                                  /\ u.password = calc_password(data.password)}
        user  == CHOOSE u \in match : TRUE
        added == [d EXCEPT !.sessions = @ \cup {[token |-> env.token, user |-> None]}]
    IN  IF ~data.valid THEN Raised(d, APIError(400, "arg_fmt", "errors"))
        ELSE IF ~({"username", "password"} \subseteq data.has) THEN Raised(d, Raise("KeyError"))
        ELSE IF match = {} THEN Raised(added, APIError(401, "incorrect_credential", ""))
        ELSE IF \E x \in d.sessions : x.token = env.token
        THEN Raised(d, Raise("ProgrammingError"))
        ELSE [Returned([d EXCEPT !.sessions = @ \cup {[token |-> env.token, user |-> user.id]}],
                       <<dump_data_user(user)>>)
                EXCEPT !.token = b64encode(env.token)]

\* login looking the user up by the username alone
UserView_login_by_name(d, r, env) ==
    LET data  == r.body
        match == {u \in d.users : u.username = data.username}
        user  == CHOOSE u \in match : TRUE
    IN  IF ~data.valid THEN Raised(d, APIError(400, "arg_fmt", "errors"))
        ELSE IF ~({"username", "password"} \subseteq data.has) THEN Raised(d, Raise("KeyError"))
        ELSE IF match = {} THEN Raised(d, APIError(401, "incorrect_credential", ""))
        ELSE IF \E x \in d.sessions : x.token = env.token
        THEN Raised(d, Raise("ProgrammingError"))
        ELSE [Returned([d EXCEPT !.sessions = @ \cup {[token |-> env.token, user |-> user.id]}],
                       <<dump_data_user(user)>>)
                EXCEPT !.token = b64encode(env.token)]

UserView_login(d, r, env) ==
    LET data  == r.body
        match == {u \in d.users : /\ u.username = data.username
                                  /\ u.password = calc_password(data.password)}
        user  == CHOOSE u \in match : TRUE
    IN  IF ~data.valid THEN Raised(d, APIError(400, "arg_fmt", "errors"))
        ELSE IF ~({"username", "password"} \subseteq data.has) THEN Raised(d, Raise("KeyError"))
        ELSE IF match = {} THEN Raised(d, APIError(401, "incorrect_credential", ""))
        \* Session.token is the primary key
        ELSE IF \E x \in d.sessions : x.token = env.token
        THEN Raised(d, Raise("ProgrammingError"))
        ELSE [Returned([d EXCEPT !.sessions = @ \cup {[token |-> env.token, user |-> user.id]}],
                       <<dump_data_user(user)>>)
                EXCEPT !.token = b64encode(env.token)]

\* get_by(Session, <token bytes>): the bytes land in allow_null, no condition
\* reaches filter_by, and first() is whichever session the database returns
\* first (env.first)
\* logout looking the session up by the header as sent, not decoded: no
\* session has it
UserView_logout_undecoded(d, gg, r, env) ==
    LET perm == check_perm(<<>>, gg.user)
    IN  IF perm.raised THEN Raised(d, perm)
        ELSE Raised(d, map_error(APIError(400, "bad_token", ""),
                                 APIError(404, "not_found", "")))

UserView_logout(d, gg, r, env) ==
    LET perm    == check_perm(<<>>, gg.user)
        decoded == b64decode(r.auth.val)
        first   == {x \in d.sessions : x.token = env.first}
    IN  IF perm.raised THEN Raised(d, perm)
        ELSE IF ~r.auth.present \/ decoded.err
        THEN Raised(d, map_error(APIError(400, "bad_token", ""), Raise("Error")))
        ELSE Returned([d EXCEPT !.sessions = @ \ first], <<>>)

----------------------------------------------------------------------------
(* PaperView and NoteView *)

PaperView_retrieve(d, gg, id) ==
    LET found == get_pk(d, "papers", id)
    IN  IF found.err.raised THEN Raised(d, found.err)
        ELSE Returned(d, <<dump_data(d, "papers", CHOOSE x \in found.result : TRUE,
                                     <<>>, TRUE, gg.json_params)>>)

NoteView_retrieve(d, gg, id) ==
    LET found == get_pk(d, "notes", id)
    IN  IF found.err.raised THEN Raised(d, found.err)
        ELSE Returned(d, <<dump_data(d, "notes", CHOOSE x \in found.result : TRUE,
                                     <<>>, TRUE, gg.json_params)>>)

\* the stored note and its dump, once the session is committed
NoteStored(d, note) ==
    Returned([d EXCEPT !.notes = {x \in @ : x.id # note.id} \cup {note}],
             <<dump_data([d EXCEPT !.notes = {x \in @ : x.id # note.id} \cup {note}],
                         "notes", note, <<>>, FALSE, NoParams)>>)

\* create without looking the relationships up: the keys sent are stored
NoteView_create_unresolved(d, gg, r) ==
    LET perm == check_perm(<<>>, gg.user)
        data == [get_data(r) EXCEPT !.has = @ \cup {"author"}, !.author = gg.user]
    IN  IF perm.raised THEN Raised(d, perm)
        ELSE NoteStored([d EXCEPT !.next_note = @ + 1],
                        [BlankNote EXCEPT !.id = d.next_note, !.title = data.title,
                                          !.author = data.author, !.paper = data.paper])

\* auth_required, then load_data(NoteSchema, {**get_data(), "author": g.user})
NoteView_create(d, gg, r) ==
    LET perm   == check_perm(<<>>, gg.user)
        data   == [get_data(r) EXCEPT !.has = @ \cup {"author"}, !.author = gg.user]
        loaded == load_data_note(d, data, TRUE, BlankNote)
    IN  IF perm.raised THEN Raised(d, perm)
        ELSE IF loaded.err.raised THEN Raised(d, loaded.err)
        ELSE NoteStored([d EXCEPT !.next_note = @ + 1],
                        [loaded.obj EXCEPT !.id = d.next_note])

NoteView_partial_update(d, r, id) ==
    LET found  == get_pk(d, "notes", id)
        loaded == load_data_note(d, get_data(r), FALSE, CHOOSE x \in found.result : TRUE)
    IN  IF found.err.raised THEN Raised(d, found.err)
        ELSE IF loaded.err.raised THEN Raised(d, loaded.err)
        ELSE NoteStored(d, loaded.obj)

\* auth_required, then load_data(PaperSchema, {**get_data(), "author": g.user}):
\* the schema has no field "author", the key is not looked at
PaperView_create(d, gg, r) ==
    LET perm   == check_perm(<<>>, gg.user)
        loaded == load_data_paper(get_data(r), BlankPaper)
        paper  == [loaded.obj EXCEPT !.id = d.next_paper]
        stored == [d EXCEPT !.next_paper = @ + 1, !.papers = @ \cup {paper}]
    IN  IF perm.raised THEN Raised(d, perm)
        ELSE IF loaded.err.raised THEN Raised(d, loaded.err)
        ELSE Returned(stored, <<dump_data(stored, "papers", paper, <<>>, FALSE, NoParams)>>)

\* the paper is dumped with UserSchema: of its fields a paper has the id only
PaperView_partial_update(d, r, id) ==
    LET found  == get_pk(d, "papers", id)
        paper  == CHOOSE x \in found.result : TRUE
        loaded == load_data_paper(get_data(r), paper)
    IN  IF found.err.raised THEN Raised(d, found.err)
        ELSE IF loaded.err.raised THEN Raised(d, loaded.err)
        ELSE Returned([d EXCEPT !.papers = (@ \ {paper}) \cup {loaded.obj}],
                      <<[id |-> id]>>)

\* the notes of the paper stay stored and lose their paper
PaperView_destroy(d, id) ==
    LET found == get_pk(d, "papers", id)
    IN  IF found.err.raised THEN Raised(d, found.err)
        ELSE Returned([d EXCEPT
                         !.papers = @ \ found.result,
                         !.notes = {IF x.paper = id THEN [x EXCEPT !.paper = None] ELSE x
                                    : x \in @}],
                      <<>>)

NoteView_destroy(d, id) ==
    LET found == get_pk(d, "notes", id)
    IN  IF found.err.raised THEN Raised(d, found.err)
        ELSE Returned([d EXCEPT !.notes = @ \ found.result], <<>>)

\* auth_required, get_pk, then "user in paper.collectors": Paper has no
\* attribute collectors
PaperView_toggle_collect_status(d, gg, id) ==
    LET perm  == check_perm(<<>>, gg.user)
        found == get_pk(d, "papers", id)
    IN  IF perm.raised THEN Raised(d, perm)
        ELSE IF found.err.raised THEN Raised(d, found.err)
        ELSE Raised(d, Raise("AttributeError"))

\* the user is taken out of note.collectors if among them, put in if not
NoteView_toggle_collect_status(d, gg, id) ==
    LET perm  == check_perm(<<>>, gg.user)
        found == get_pk(d, "notes", id)
        note  == CHOOSE x \in found.result : TRUE
        toggled(collectors) ==
            [d EXCEPT !.notes = (@ \ {note}) \cup {[note EXCEPT !.collectors = collectors]}]
    IN  IF perm.raised THEN Raised(d, perm)
        ELSE IF found.err.raised THEN Raised(d, found.err)
        ELSE IF gg.user \in note.collectors
        THEN Returned(toggled(note.collectors \ {gg.user}), <<[collected |-> FALSE]>>)
        ELSE Returned(toggled(note.collectors \cup {gg.user}), <<[collected |-> TRUE]>>)

----------------------------------------------------------------------------
(* APIView: the HTTP method handlers *)

Call(handler, type, pk) == [handler |-> handler, type |-> type, pk |-> pk]

\* the body of a handler of a view (the list of "notes" and of "papers" is
\* not among them); the handlers of "probe" only return success
RunHandler(view, handler, pk, d, gg, r, env) ==
    CASE view = "users" ->
           CASE handler = "list"           -> UserView_list(d, gg)
             [] handler = "create"         -> UserView_create(d, r, env)
             [] handler = "retrieve"       -> UserView_retrieve(d, pk)
             [] handler = "partial_update" -> UserView_partial_update(d, r, pk)
             [] handler = "destroy"        -> UserView_destroy(d, pk)
             [] handler = "login"          -> UserView_login(d, r, env)
             [] OTHER                      -> UserView_logout(d, gg, r, env)
      [] view = "notes" ->
           CASE handler = "create"         -> NoteView_create(d, gg, r)
             [] handler = "partial_update" -> NoteView_partial_update(d, r, pk)
             [] handler = "destroy"        -> NoteView_destroy(d, pk)
             [] handler = "toggle_collect_status" ->
                  NoteView_toggle_collect_status(d, gg, pk)
             [] OTHER                      -> NoteView_retrieve(d, gg, pk)
      [] view = "papers" ->
           CASE handler = "create"         -> PaperView_create(d, gg, r)
             [] handler = "partial_update" -> PaperView_partial_update(d, r, pk)
             [] handler = "destroy"        -> PaperView_destroy(d, pk)
             [] handler = "toggle_collect_status" ->
                  PaperView_toggle_collect_status(d, gg, pk)
             [] OTHER                      -> PaperView_retrieve(d, gg, pk)
      [] OTHER -> Returned(d, <<>>)

\* a bound handler chosen by a method handler, or the error of choosing it
Bound(handler, type, pk) == [err |-> NoErr, call |-> Call(handler, type, pk)]

\* self._<type>_handlers[name], to be called with (self[, pk])
Named(view, type, name, pk) ==
    LET h == Lookup(view, type, name)
    IN  [err |-> h.err, call |-> Call(h.attr, type, pk)]

\* get looking a name up among the action handlers
get_in_action_tables(view, ph1, ph2) ==
    IF ph1.kind = "none" THEN Bound("list", "", None)
    ELSE IF ph1.kind = "str" THEN Named(view, "res_action", ph1.s, None)
    ELSE IF ph2.kind = "none" THEN Bound("retrieve", "", ph1.n)
    ELSE Named(view, "inst_action", ph2.s, ph1.n)

get(view, ph1, ph2) ==
    IF ph1.kind = "none" THEN Bound("list", "", None)
    ELSE IF ph1.kind = "str" THEN Named(view, "res_data", ph1.s, None)
    ELSE IF ph2.kind = "none" THEN Bound("retrieve", "", ph1.n)
    ELSE Named(view, "inst_data", ph2.s, ph1.n)

\* post looking a name up among the data handlers
post_in_data_tables(view, ph1, ph2) ==
    IF ph1.kind = "none" THEN Bound("create", "", None)
    ELSE IF ph1.kind = "str" THEN Named(view, "res_data", ph1.s, None)
    ELSE Named(view, "inst_data", ph2.s, ph1.n)

post(view, ph1, ph2) ==
    IF ph1.kind = "none" THEN Bound("create", "", None)
    ELSE IF ph1.kind = "str" THEN Named(view, "res_action", ph1.s, None)
    ELSE Named(view, "inst_action", ph2.s, ph1.n)

delete(view, ph1) == Bound("destroy", "", ph1.n)

patch(view, ph1) == Bound("partial_update", "", ph1.n)

\* the preflight answer: a bare Response with the CORS headers
CorsHeaders ==
    { <<"Access-Control-Allow-Origin", "*">>,
      <<"Access-Control-Max-Age", ToString(CORS_MAX_AGE)>>,
      <<"Access-Control-Allow-Methods", "GET, POST, PATCH, DELETE">>,
      <<"Access-Control-Allow-Headers", AUTH_TOKEN_HEADER>> }

option(view, ph1, ph2) == Bound("option", "", None)

\* the call of the chosen handler and its result
Invoke(chosen, view, d, gg, r, env) ==
    IF chosen.err.raised THEN [calls |-> <<>>, res |-> Raised(d, chosen.err)]
    ELSE IF chosen.call.handler = "option"
    THEN [calls |-> <<chosen.call>>, res |-> [Returned(d, <<>>) EXCEPT !.plain = TRUE]]
    ELSE [calls |-> <<chosen.call>>,
          res   |-> RunHandler(view, chosen.call.handler, chosen.call.pk, d, gg, r, env)]

\* MethodView.dispatch_request: the method handler named after the HTTP method
MethodHandler(view, method, ph1, ph2, d, gg, r, env) ==
    Invoke(CASE method = "GET"    -> get(view, ph1, ph2)
             [] method = "POST"   -> post(view, ph1, ph2)
             [] method = "DELETE" -> delete(view, ph1)
             [] method = "PATCH"  -> patch(view, ph1)
             [] OTHER             -> option(view, ph1, ph2),
           view, d, gg, r, env)

----------------------------------------------------------------------------
(* APIView.dispatch_request *)

NoG == [user |-> None, user_set |-> FALSE, json_params |-> NoParams, params_set |-> FALSE]

\* the parsing without unquote: the value is decoded as request.args holds it
ParseJsonParams_escaped(raw) ==
    IF raw.present /\ raw.val # <<>>
    THEN LET bytes == b64decode(raw.val)
             doc   == json_loads(bytes.bytes)
         IN  IF bytes.err \/ doc.err
             THEN [err |-> APIError(400, "bad_json_params", ""), doc |-> NoParams]
             ELSE [err |-> NoErr, doc |-> doc.doc]
    ELSE [err |-> NoErr, doc |-> NoParams]

\* g.json_params from the json_params query-string value
ParseJsonParams(raw) ==
    IF raw.present /\ raw.val # <<>>
    THEN LET bytes == b64decode(unquote(raw.val))
             doc   == json_loads(bytes.bytes)
         IN  IF bytes.err \/ doc.err
             THEN [err |-> map_error(APIError(400, "bad_json_params", ""), Raise("ValueError")),
                   doc |-> NoParams]
             ELSE [err |-> NoErr, doc |-> doc.doc]
    ELSE [err |-> NoErr, doc |-> NoParams]

\* the authentication without "if token": the empty token is looked up too
Authenticate_every_token(d, auth) ==
    LET decoded == b64decode(IF auth.present THEN auth.val ELSE <<>>)
        session == get_pk(d, "sessions", decoded.bytes)
        failed  == [err |-> APIError(401, "auth_failed", ""), user |-> None]
    IN  IF decoded.err \/ session.err.raised THEN failed
        ELSE [err |-> NoErr, user |-> (CHOOSE x \in session.result : TRUE).user]

\* g.user from the auth-token header
Authenticate(d, auth) ==
    LET decoded == b64decode(IF auth.present THEN auth.val ELSE <<>>)
        token   == decoded.bytes
        session == get_pk(d, "sessions", token)
        failed  == [err |-> APIError(401, "auth_failed", ""), user |-> None]
    IN  IF decoded.err THEN [failed EXCEPT !.err = map_error(@, Raise("Error"))]
        ELSE IF token = <<>> THEN [err |-> NoErr, user |-> None]
        ELSE IF session.err.raised THEN [failed EXCEPT !.err = map_error(@, session.err)]
        ELSE [err |-> NoErr, user |-> (CHOOSE x \in session.result : TRUE).user]

\* the JSON body and status of a response
JsonBody(status, type, exception_type, ctx) ==
    [status |-> status, type |-> type, exception_type |-> exception_type, ctx |-> ctx]

\* the except clauses answering an unclassified exception with a server error
ErrorResponse_server_error(e) ==
    IF e.api
    THEN [status |-> e.status, body |-> JsonBody("failed", e.type, "", e.ctx)]
    ELSE [status |-> 500, body |-> JsonBody("failed", "exception", e.exc, "backtrace")]

\* except APIError / except Exception
ErrorResponse(e) ==
    IF e.api
    THEN [status |-> e.status, body |-> JsonBody("failed", e.type, "", e.ctx)]
    ELSE [status |-> 400, body |-> JsonBody("failed", "exception", e.exc, "backtrace")]

Response(status, body, headers, data, token) ==
    [status |-> status, body |-> body, headers |-> headers, data |-> data, token |-> token,
     by |-> "view"]

AllowOrigin == {<<"Access-Control-Allow-Origin", "*">>}

\* the except clauses: the error rendered, with what the request had done
Failed(e, gg, cs, d2, b) ==
    [db |-> d2, calls |-> cs, g |-> gg, built |-> b, exc |-> e,
     resp |-> Response(ErrorResponse(e).status, ErrorResponse(e).body, AllowOrigin, <<>>, <<>>)]

\* the response made from the method handler's result
Finish(ran, gg) ==
    IF ran.res.err.raised
    THEN Failed(ran.res.err, gg, ran.calls, ran.res.db, ran.res.built)
    ELSE [db |-> ran.res.db, calls |-> ran.calls, g |-> gg, built |-> ran.res.built,
          exc |-> NoErr,
          resp |-> IF ran.res.plain
                   THEN Response(200, JsonBody("", "", "", ""), CorsHeaders, <<>>, <<>>)
                   ELSE Response(200, JsonBody("success", "", "", ""), AllowOrigin,
                                 ran.res.data, ran.res.token)]

\* g.user is set, then the method handler runs
WithUser(auth, gg, view, method, ph1, ph2, d, r, env) ==
    IF auth.err.raised THEN Failed(auth.err, gg, <<>>, d, NoBuilt)
    ELSE Finish(MethodHandler(view, method, ph1, ph2, d,
                              [gg EXCEPT !.user = auth.user, !.user_set = TRUE], r, env),
                [gg EXCEPT !.user = auth.user, !.user_set = TRUE])

\* g.json_params is set, then the user is authenticated
WithParams(params, view, method, ph1, ph2, d, r, env) ==
    IF params.err.raised THEN Failed(params.err, NoG, <<>>, d, NoBuilt)
    ELSE WithUser(Authenticate(d, r.auth),
                  [NoG EXCEPT !.json_params = params.doc, !.params_set = TRUE],
                  view, method, ph1, ph2, d, r, env)

\* the whole of dispatch_request for a matched route:
\* [db, resp, calls, g, built, exc]
dispatch_request(view, method, ph1, ph2, d, r, env) ==
    WithParams(ParseJsonParams(r.json_params), view, method, ph1, ph2, d, r, env)

\* an answer of the framework itself: the view is not entered
FrameworkResponse(status, headers) ==
    [status |-> status, body |-> JsonBody("", "", "", ""), headers |-> headers,
     data |-> <<>>, token |-> <<>>, by |-> "framework"]

\* a request, from the URL map to the response
Serve(d, r, env) ==
    LET m == Match(r.method, r.segs)
        untouched(rp) == [db |-> d, calls |-> <<>>, g |-> NoG, built |-> NoBuilt,
                          exc |-> NoErr, resp |-> rp]
    IN  CASE m.outcome = "not_found"          -> untouched(FrameworkResponse(404, {}))
          [] m.outcome = "method_not_allowed" -> untouched(FrameworkResponse(405, {}))
          [] m.outcome = "automatic_options"  ->
                untouched(FrameworkResponse(200, {<<"Allow", "allowed methods">>}))
          [] OTHER -> dispatch_request(r.view, r.method, m.ph1, m.ph2, d, r, env)

----------------------------------------------------------------------------
(* Requests *)

\* session tokens os.urandom can return (one chunk each)
NTokens == 2
Tokens == {<<RawChunk(n)>> : n \in 1..NTokens}

\* readings of the clock (datetime.now)
NDates == 2
Dates == 1..NDates

TextOf(present, val) == [present |-> present, val |-> val]
Absent == TextOf(FALSE, <<>>)

\* values of the auth-token header: none, the empty string, a character that
\* is not base64, a text with bad padding, the encoding of a token, and that
\* encoding after a character that is not base64
AuthOf(t) == TextOf(TRUE, b64encode(t))
AuthHeaders ==
    {Absent, TextOf(TRUE, <<>>), TextOf(TRUE, <<Junk>>), TextOf(TRUE, <<Lone>>)}
    \cup {AuthOf(t) : t \in Tokens}
    \cup {TextOf(TRUE, <<Junk>> \o b64encode(<<RawChunk(1)>>))}
AuthBasic == {Absent, AuthOf(<<RawChunk(1)>>)}

\* Request Filter Parameters sent to the running server
Term(path, asc) == [path |-> path, asc |-> asc]
Doc(keys, query, order, offset, limit) ==
    [NoDoc EXCEPT !.keys = keys, !.query = query, !.order = order, !.offset = offset,
                  !.limit = limit]
\* a document holding only "with": the field paths to expand in the output
WithDoc(paths) == [NoDoc EXCEPT !.keys = <<"with">>, !.with = paths]

SpecDocs ==
    << Doc(<<>>, <<>>, <<>>, 0, 0),
       Doc(<<"limit">>, <<>>, <<>>, 0, 1),
       Doc(<<"order">>, <<>>, <<Term(<<"join_date">>, FALSE)>>, 0, 0),
       Doc(<<"order", "limit">>, <<>>, <<Term(<<"join_date">>, FALSE)>>, 0, 2),
       Doc(<<"query">>, <<"eq", <<"username">>, StrLit("alice")>>, <<>>, 0, 0),
       Doc(<<"offset", "query">>, <<"bogus", <<"username">>, StrLit("alice")>>, <<>>, 1, 0) >>

\* test.py: create_json_param(param)
create_json_param(param) == quote(b64encode(json_dumps(param)))

\* values of the json_params query-string parameter as request.args holds
\* them: the output of create_json_param written into the URL (the framework
\* has undone the escapes) or passed as a query argument (the escapes are
\* still there); values that are no base64 of JSON; a document after a
\* character outside the alphabet; a document escaped twice
ParamsOf(doc) == TextOf(TRUE, unquote(create_json_param(doc)))
BadParams == {TextOf(TRUE, <<Lone>>), TextOf(TRUE, b64encode(<<RawChunk(1)>>))}
ListParams ==
    {Absent, TextOf(TRUE, <<>>)} \cup BadParams
    \cup {ParamsOf(SpecDocs[i]) : i \in DOMAIN SpecDocs}
    \cup {TextOf(TRUE, create_json_param(SpecDocs[2])),
          TextOf(TRUE, quote(create_json_param(SpecDocs[2]))),
          TextOf(TRUE, <<Junk>>),
          TextOf(TRUE, <<Junk>> \o b64encode(json_dumps(SpecDocs[2])))}

\* URL paths below a view's base URL
IdSegs == {"1", "2", "3"}
WordsOf(view) == {a.target : a \in ViewDict(view)} \cup {"nosuch"}
Paths(view) ==
    {<<>>, <<"nosuch", "nosuch">>}
    \cup {<<i>> : i \in IdSegs}
    \cup {<<w>> : w \in WordsOf(view)}
    \cup {<<"1", w>> : w \in WordsOf(view)}

\* JSON bodies
BodyOf(has, valid, username, password) ==
    [NoBody EXCEPT !.has = has, !.valid = valid, !.username = username,
                   !.password = password, !.id = 3, !.join_date = 2]
Credentials == {"username", "password"}
CreateBodies ==
    { BodyOf(Credentials, TRUE, "alice", "pw1"),
      BodyOf(Credentials, TRUE, "bob", "pw1"),
      BodyOf(Credentials \cup {"id", "join_date"}, TRUE, "bob", "pw1"),
      BodyOf(Credentials, FALSE, "alice", "pw1") }
UpdateBodies ==
    { BodyOf({"username"}, TRUE, "bob", ""),
      BodyOf({"password"}, TRUE, "", "pw2"),
      BodyOf({"id", "join_date"}, TRUE, "", ""),
      BodyOf({"username"}, FALSE, "bob", "") }
LoginBodies ==
    { BodyOf(Credentials, TRUE, "alice", "pw1"),
      BodyOf(Credentials, TRUE, "alice", "pw2"),
      BodyOf(Credentials, TRUE, "bob", "pw1"),
      BodyOf({"username"}, TRUE, "alice", ""),
      BodyOf(Credentials, FALSE, "alice", "pw1") }

\* what the environment decides during a request: the token os.urandom
\* returns, the session an unordered first() returns, the clock
EnvOf(token, first, now) == [token |-> token, first |-> first, now |-> now]
NoEnv == EnvOf(<<RawChunk(1)>>, <<RawChunk(1)>>, 1)

RequestOf(method, view, segs, auth, json_params, body) ==
    [method |-> method, view |-> view, segs |-> segs, auth |-> auth,
     json_params |-> json_params, body |-> body]

----------------------------------------------------------------------------
(* The server *)

NoRequest == RequestOf("", "users", <<>>, Absent, Absent, NoBody)
NoResponse == FrameworkResponse(0, {})
NoTrip ==
    [ran |-> FALSE, schema |-> "", id |-> None, data |-> NoBody, err |-> NoErr,
     loaded |-> BlankUser]

Init ==
    /\ db = [users |-> {}, sessions |-> {}, next_id |-> 1,
             papers |-> {}, notes |-> {}, next_note |-> 1, next_paper |-> 1]
    /\ req = NoRequest
    /\ resp = NoResponse
    /\ calls = <<>>
    /\ g = NoG
    /\ built = NoBuilt
    /\ exc = NoErr
    /\ trip = NoTrip
    /\ permcall = NoPerm

\* no request is being served
Idle == req = NoRequest /\ ~trip.ran /\ ~permcall.ran

\* the outcome o of serving request r becomes the state
Reply(r, o) ==
    /\ o.db.next_id # db.next_id => o.db.next_id <= MaxId + 1
    /\ Cardinality(o.db.sessions) <= MaxSessions
    /\ o.db.next_note # db.next_note => o.db.next_note <= MaxNotes + 1
    /\ o.db.next_paper # db.next_paper => o.db.next_paper <= MaxPapers + 1
    /\ db' = o.db
    /\ req' = r
    /\ resp' = o.resp
    /\ calls' = o.calls
    /\ g' = o.g
    /\ built' = o.built
    /\ exc' = o.exc
    /\ trip' = NoTrip
    /\ permcall' = NoPerm

\* one request served, from the URL map to the response
Do(r, env) == Reply(r, Serve(db, r, env))

\* the request and application contexts are popped once the response is sent
Teardown ==
    /\ ~Idle
    /\ req' = NoRequest
    /\ resp' = NoResponse
    /\ calls' = <<>>
    /\ g' = NoG
    /\ built' = NoBuilt
    /\ exc' = NoErr
    /\ trip' = NoTrip
    /\ permcall' = NoPerm
    /\ UNCHANGED db

\* a request with what the environment decides while it is served
Input(r, env) == [r |-> r, env |-> env]

\* every path of every view without credentials, then chosen paths under every
\* auth header and every json_params value
Sweep(method) ==
    {Input(RequestOf(method, view, segs, Absent, Absent, NoBody), NoEnv) :
        view \in ViewNames, segs \in Paths("users") \cup Paths("probe")}

GetRequests ==
    Sweep("GET")
    \cup {Input(RequestOf("GET", "users", segs, auth, Absent, NoBody), NoEnv) :
        auth \in AuthHeaders, segs \in {<<>>, <<"1">>, <<"nosuch">>}}
    \cup {Input(RequestOf("GET", "users", <<>>, Absent, jp, NoBody), NoEnv) :
        jp \in ListParams}
    \cup {Input(RequestOf("GET", "users", <<"1">>, auth, jp, NoBody), NoEnv) :
        auth \in {AuthOf(<<RawChunk(1)>>), TextOf(TRUE, <<Lone>>)}, jp \in BadParams}

PostRequests(d) ==
    Sweep("POST")
    \cup {Input(RequestOf("POST", "users", <<>>, Absent, Absent, body),
                EnvOf(<<RawChunk(1)>>, <<RawChunk(1)>>, now)) :
        body \in CreateBodies, now \in Dates}
    \cup {Input(RequestOf("POST", "users", <<>>, auth, TextOf(TRUE, <<Lone>>), body), NoEnv) :
        auth \in {Absent, TextOf(TRUE, <<Lone>>)}, body \in CreateBodies}
    \cup {Input(RequestOf("POST", "users", <<"login">>, Absent, Absent, body),
                EnvOf(token, token, 1)) :
        body \in LoginBodies, token \in Tokens}
    \cup {Input(RequestOf("POST", "users", <<"logout">>, auth, Absent, NoBody),
                EnvOf(first, first, 1)) :
        auth \in AuthHeaders,
        first \in IF d.sessions = {} THEN Tokens ELSE {x.token : x \in d.sessions}}

PatchRequests ==
    Sweep("PATCH")
    \cup {Input(RequestOf("PATCH", "users", <<i>>, auth, Absent, body), NoEnv) :
        body \in UpdateBodies, auth \in AuthBasic, i \in IdSegs}

DeleteRequests ==
    Sweep("DELETE")
    \cup {Input(RequestOf("DELETE", "users", <<"1">>, auth, Absent, NoBody), NoEnv) :
        auth \in AuthHeaders}
    \cup {Input(RequestOf("DELETE", "users", <<"1">>, Absent, jp, NoBody), NoEnv) :
        jp \in BadParams}

\* the preflight of a browser (OPTIONS) and the verb the routes name (OPTION)
OptionsRequests ==
    Sweep("OPTIONS") \cup Sweep("OPTION")
    \cup {Input(RequestOf(method, "users", <<>>, auth, jp, NoBody), NoEnv) :
        method \in {"OPTIONS", "OPTION"}, auth \in {Absent, TextOf(TRUE, <<Lone>>)},
        jp \in {Absent, TextOf(TRUE, <<Lone>>)}}

Get == Idle /\ \E x \in GetRequests : Do(x.r, x.env)

Post == Idle /\ \E x \in PostRequests(db) : Do(x.r, x.env)

Patch == Idle /\ \E x \in PatchRequests : Do(x.r, x.env)

Delete == Idle /\ \E x \in DeleteRequests : Do(x.r, x.env)

Options == Idle /\ \E x \in OptionsRequests : Do(x.r, x.env)

Next == Get \/ Post \/ Patch \/ Delete \/ Options \/ Teardown

Spec == Init /\ [][Next]_vars

----------------------------------------------------------------------------
(* The query pipeline on its own: list requests, with every combination of  *)
(* the keys of the Request Filter Parameters, over stores of users          *)

\* users in a store
MaxRows == 3
\* the largest offset and limit sent
MaxOffset == 2
MaxLimit == 2

QueryNames == <<"alice", "bob", "carol", "dave">>

\* n users with ids 1..n; the names follow the ids or run against them
StoreOf(n, up, dates) ==
    [users    |-> {[id |-> i, username |-> QueryNames[IF up THEN i ELSE n + 1 - i],
                    password |-> "h1", join_date |-> dates[i]] : i \in 1..n},
     sessions |-> {},
     next_id  |-> n + 1,
     papers   |-> {},
     notes    |-> {},
     next_note |-> 1, next_paper |-> 1]

QueryStores ==
    {StoreOf(n, up, dates) : n \in 0..MaxRows, up \in BOOLEAN, dates \in [1..MaxRows -> Dates]}

\* Filter Queries: empty, a comparison, nested logical operators, an unknown
\* operator at the root, one two levels down behind a comparison that builds,
\* one behind a comparison that raises, and two with such a comparison between
QuerySamples ==
    << <<>>,
       <<"eq", <<"username">>, StrLit("alice")>>,
       <<"or", <<"gt", <<"join_date">>, IntLit(1)>>,
               <<"not", <<"contains", <<"username">>, StrLit("a")>>>>>>,
       <<"bogus", <<"username">>, StrLit("alice")>>,
       <<"and", <<"eq", <<"username">>, StrLit("alice")>>,
                <<"or", <<"like", <<"username">>, StrLit("a")>>,
                        <<"lt", <<"join_date">>, IntLit(2)>>>>>>,
       <<"and", <<"gt", <<"nosuch">>, IntLit(1)>>,
                <<"bogus", <<"username">>, StrLit("alice")>>>>,
       <<"or", <<"like", <<"username">>, StrLit("a")>>,
               <<"contains", <<"nosuch">>, StrLit("a")>>,
               <<"bogus", <<"username">>, StrLit("alice")>>>> >>

\* order lists: empty, one pair, two pairs, a path that names no column
OrderSamples ==
    << <<>>,
       <<Term(<<"join_date">>, TRUE)>>,
       <<Term(<<"join_date">>, FALSE)>>,
       <<Term(<<"username">>, FALSE)>>,
       <<Term(<<"join_date">>, FALSE), Term(<<"username">>, TRUE)>>,
       <<Term(<<"join_date">>, TRUE), Term(<<"username">>, FALSE)>>,
       <<Term(<<"nosuch">>, TRUE)>> >>

\* the keys of a document in the orders they can appear in: every set of keys,
\* started at each of its keys
ParamKeys == <<"query", "order", "offset", "limit">>
Rotate(seq, k) == [i \in DOMAIN seq |-> seq[((i + k - 1) % Len(seq)) + 1]]
KeyOrders ==
    {<<>>} \cup
    {Rotate(SelectSeq(ParamKeys, LAMBDA key : key \in chosen), k) :
        chosen \in (SUBSET Range(ParamKeys)) \ {{}}, k \in 0..(Len(ParamKeys) - 1)}

InitQuery ==
    /\ db \in QueryStores
    /\ req = NoRequest
    /\ resp = NoResponse
    /\ calls = <<>>
    /\ g = NoG
    /\ built = NoBuilt
    /\ exc = NoErr
    /\ trip = NoTrip
    /\ permcall = NoPerm

\* GET /users with json_params: a key that is not sent has no value to vary
ListUsers ==
    /\ Idle
    /\ \E keys \in KeyOrders, qi \in DOMAIN QuerySamples, oi \in DOMAIN OrderSamples,
          offset \in 0..MaxOffset, limit \in 0..MaxLimit :
           /\ "query" \in Range(keys) \/ qi = 1
           /\ "order" \in Range(keys) \/ oi = 1
           /\ "offset" \in Range(keys) \/ offset = 0
           /\ "limit" \in Range(keys) \/ limit = 0
           /\ Do(RequestOf("GET", "users", <<>>, Absent,
                            ParamsOf(Doc(keys, QuerySamples[qi], OrderSamples[oi], offset, limit)),
                            NoBody), NoEnv)

\* Filter Queries over the fields of a user: every comparison filter on a
\* name, a date and an id, and the logical filters over them, two levels deep
CompNames == <<"eq", "ne", "gt", "gte", "lt", "lte", "contains">>
LogicalNames == <<"and", "or">>

Comparisons ==
    [k \in 1..7 |-> <<CompNames[k], <<"username">>, StrLit("bob")>>]
    \o [k \in 1..6 |-> <<CompNames[k], <<"join_date">>, IntLit(1)>>]
    \o [k \in 1..6 |-> <<CompNames[k], <<"id">>, IntLit(2)>>]

Operands ==
    << <<"contains", <<"username">>, StrLit("o")>>,
       <<"gt", <<"join_date">>, IntLit(1)>>,
       <<"lte", <<"id">>, IntLit(2)>> >>

\* and / or of one, two and three operands
Singles == [k \in 1..6 |-> <<LogicalNames[((k - 1) % 2) + 1], Operands[((k - 1) \div 2) + 1]>>]
Pairs ==
    [k \in 1..18 |-> <<LogicalNames[((k - 1) % 2) + 1],
                        Operands[(((k - 1) \div 2) % 3) + 1],
                        Operands[((k - 1) \div 6) + 1]>>]
Triples == [k \in 1..2 |-> <<LogicalNames[k], Operands[1], Operands[2], Operands[3]>>]

\* not of one query, and of two
Negations ==
    [k \in DOMAIN Comparisons |-> <<"not", Comparisons[k]>>]
    \o [k \in DOMAIN Pairs |-> <<"not", Pairs[k]>>]
    \o [k \in DOMAIN Operands |-> <<"not", <<"not", Operands[k]>>>>]
NegationsOfTwo ==
    [k \in 1..9 |-> <<"not", Operands[((k - 1) % 3) + 1], Operands[((k - 1) \div 3) + 1]>>]

\* and / or of a negation and a pair
Mixed ==
    [k \in 1..108 |-> <<LogicalNames[((k - 1) % 2) + 1],
                         <<"not", Operands[(((k - 1) \div 2) % 3) + 1]>>,
                         Pairs[((k - 1) \div 6) + 1]>>]

FilterQueries ==
    Comparisons \o Singles \o Pairs \o Triples \o Negations \o NegationsOfTwo \o Mixed

\* GET /users with json_params holding a query and nothing else
FilterUsers ==
    /\ Idle
    /\ \E k \in DOMAIN FilterQueries :
          Do(RequestOf("GET", "users", <<>>, Absent,
                       ParamsOf(Doc(<<"query">>, FilterQueries[k], <<>>, 0, 0)), NoBody),
             NoEnv)

NextQuery == ListUsers \/ FilterUsers \/ Teardown

SpecQuery == InitQuery /\ [][NextQuery]_vars

----------------------------------------------------------------------------
(* The schema adapter on its own: retrieves of papers and notes under every *)
(* list of `with` paths, creates and updates of notes, and the dump and     *)
(* load of stored entities, over stores of users, papers and notes          *)

SchemaUsers ==
    { [id |-> 1, username |-> "alice", password |-> "h1", join_date |-> 1],
      [id |-> 2, username |-> "bob",   password |-> "h2", join_date |-> 2] }

\* one or two papers and notes; user 1 holds a session
SchemaStores ==
    { [users     |-> SchemaUsers,
       sessions  |-> {[token |-> <<RawChunk(1)>>, user |-> 1]},
       next_id   |-> 3,
       papers    |-> {[id |-> 1, title |-> "p1", owners |-> owners]}
                     \cup more_papers,
       notes     |-> {[id |-> 1, title |-> "n1", author |-> author, paper |-> paper,
                       collectors |-> note_collectors]} \cup more_notes,
       next_note |-> 2 + Cardinality(more_notes),
       next_paper |-> 2 + Cardinality(more_papers)] :
        owners \in {{}, {1}},
        more_papers \in {{}, {[id |-> 2, title |-> "p2", owners |-> {2}]}},
        author \in {None, 1}, paper \in {None, 1}, note_collectors \in {{}, {1}},
        more_notes \in {{}, {[id |-> 2, title |-> "n2", author |-> 2, paper |-> 1,
                              collectors |-> {2}]}} }

\* `with` paths that name relationships of a paper and of a note
PaperPaths ==
    { <<"owners">>, <<"notes">>, <<"collectors">>,
      <<"notes", "author">>, <<"notes", "paper">>, <<"notes", "collectors">> }
NotePaths ==
    { <<"author">>, <<"paper">>, <<"collectors">>,
      <<"paper", "notes">>, <<"paper", "collectors">> }

\* the lists of up to two of them, in both orders
WithLists(paths) ==
    {<<>>} \cup {<<p>> : p \in paths} \cup {<<p, q>> : p, q \in paths}

\* bodies of a create or update of a note
NoteBodies ==
    { [NoBody EXCEPT !.has = {"title"}, !.title = "t"],
      [NoBody EXCEPT !.has = {"title"}, !.title = "t", !.valid = FALSE],
      [NoBody EXCEPT !.has = {"title", "id", "collectors"}, !.title = "t", !.id = 3] }
    \cup { [NoBody EXCEPT !.has = {"title", "paper"}, !.title = "t", !.paper = paper] :
             paper \in {None, 1, 2, 3} }
    \cup { [NoBody EXCEPT !.has = {"paper", "author"}, !.paper = 1, !.author = author] :
             author \in {2, 3} }

InitSchema ==
    /\ db \in SchemaStores
    /\ req = NoRequest
    /\ resp = NoResponse
    /\ calls = <<>>
    /\ g = NoG
    /\ built = NoBuilt
    /\ exc = NoErr
    /\ trip = NoTrip
    /\ permcall = NoPerm

RetrievePaper ==
    /\ Idle
    /\ \E i \in {"1", "2"}, paths \in WithLists(PaperPaths) :
          Do(RequestOf("GET", "papers", <<i>>, Absent, ParamsOf(WithDoc(paths)), NoBody), NoEnv)

RetrieveNote ==
    /\ Idle
    /\ \E i \in {"1", "2"}, paths \in WithLists(NotePaths) :
          Do(RequestOf("GET", "notes", <<i>>, Absent, ParamsOf(WithDoc(paths)), NoBody), NoEnv)

CreateNote ==
    /\ Idle
    /\ \E auth \in AuthBasic, body \in NoteBodies :
          Do(RequestOf("POST", "notes", <<>>, auth, Absent, body), NoEnv)

UpdateNote ==
    /\ Idle
    /\ \E i \in IdSegs, body \in NoteBodies :
          Do(RequestOf("PATCH", "notes", <<i>>, Absent, Absent, body), NoEnv)

\* a stored entity is dumped with no nested inclusion and the mapping loaded
DumpThenLoad(schema, row) ==
    LET data   == AsData(dump_data(db, schema, row, <<>>, FALSE, NoParams))
        loaded == load_data(db, schema, data)
    IN  trip' = [ran |-> TRUE, schema |-> schema, id |-> row.id, data |-> data,
                 err |-> loaded.err, loaded |-> loaded.obj]

RoundTrip ==
    /\ Idle
    /\ \E schema \in {"users", "papers", "notes"} : \E row \in db[schema] :
          DumpThenLoad(schema, row)
    /\ UNCHANGED <<db, req, resp, calls, g, built, exc, permcall>>

NextSchema ==
    RetrievePaper \/ RetrieveNote \/ CreateNote \/ UpdateNote \/ RoundTrip \/ Teardown

SpecSchema == InitSchema /\ [][NextSchema]_vars

----------------------------------------------------------------------------
(* check_perm on its own: called for each user and for nobody with tuples  *)
(* of one and two rules, with throw set and not set                        *)

\* users a rule can name and a function can admit
PermUsers == {1, 2}

\* rules that are no tuple: a User, a group, a function, a list of two Users
PermRules ==
    {UserRule(id) : id \in PermUsers}
    \cup {GroupRule}
    \cup {FuncRule(allows) : allows \in SUBSET PermUsers}
    \cup {ListRule(<<UserRule(a), FuncRule({b})>>) : a, b \in PermUsers}

\* the rules of a call: check_perm(rule) and check_perm(rule, rule)
PermTuples == {<<a>> : a \in PermRules} \cup {<<a, b>> : a, b \in PermRules}

InitPerm ==
    /\ db \in {d \in SchemaStores : Cardinality(d.papers) = 1 /\ Cardinality(d.notes) = 1}
    /\ req = NoRequest
    /\ resp = NoResponse
    /\ calls = <<>>
    /\ g = NoG
    /\ built = NoBuilt
    /\ exc = NoErr
    /\ trip = NoTrip
    /\ permcall = NoPerm

\* check_perm(*rules, throw=throw) with g.user = user
CheckPerm ==
    /\ Idle
    /\ \E rules \in PermTuples, user \in PermUsers \cup {None}, throw \in BOOLEAN :
          permcall' = [ran |-> TRUE, rules |-> rules, user |-> user, throw |-> throw,
                       err |-> check_perm_throw(rules, user, throw).err,
                       authorized |-> check_perm_throw(rules, user, throw).authorized]
    /\ UNCHANGED <<db, req, resp, calls, g, built, exc, trip>>

NextPerm == CheckPerm \/ Teardown

SpecPerm == InitPerm /\ [][NextPerm]_vars

----------------------------------------------------------------------------
(* The handlers of PaperView and NoteView that write: create, partial      *)
(* update, destroy and toggle_collect_status, asked for with and without   *)
(* the token of user 1                                                     *)

\* the stores of SchemaStores in which paper 1 has an owner and note 1 an
\* author and a paper
EditStores ==
    {d \in SchemaStores :
        /\ \A x \in d.papers : x.owners # {}
        /\ \A x \in d.notes : x.author # None /\ x.paper # None}

\* a new title, alone and with the key of no stored paper
EditBodies ==
    { [NoBody EXCEPT !.has = {"title"}, !.title = "t"],
      [NoBody EXCEPT !.has = {"title", "paper"}, !.title = "t", !.paper = 3] }

EditViews == {"papers", "notes"}

InitEdit ==
    /\ db \in EditStores
    /\ req = NoRequest
    /\ resp = NoResponse
    /\ calls = <<>>
    /\ g = NoG
    /\ built = NoBuilt
    /\ exc = NoErr
    /\ trip = NoTrip
    /\ permcall = NoPerm

Create ==
    /\ Idle
    /\ \E view \in EditViews, auth \in AuthBasic, body \in EditBodies :
          Do(RequestOf("POST", view, <<>>, auth, Absent, body), NoEnv)

Update ==
    /\ Idle
    /\ \E view \in EditViews \cup {"users"}, i \in IdSegs, auth \in AuthBasic,
          body \in EditBodies :
          Do(RequestOf("PATCH", view, <<i>>, auth, Absent, body), NoEnv)

Destroy ==
    /\ Idle
    /\ \E view \in EditViews \cup {"users"}, i \in IdSegs, auth \in AuthBasic :
          Do(RequestOf("DELETE", view, <<i>>, auth, Absent, NoBody), NoEnv)

\* toggle_collect_status of a paper or a note, asked for with GET and POST
Toggle ==
    /\ Idle
    /\ \E method \in {"GET", "POST"}, view \in EditViews, i \in IdSegs, auth \in AuthBasic :
          Do(RequestOf(method, view, <<i, "toggle_collect_status">>, auth, Absent, NoBody),
             NoEnv)

\* POST /users/logout; first is the session the handler's lookup comes upon
Logout ==
    /\ Idle
    /\ \E auth \in AuthBasic,
          first \in IF db.sessions = {} THEN Tokens ELSE {x.token : x \in db.sessions} :
          Do(RequestOf("POST", "users", <<"logout">>, auth, Absent, NoBody),
             EnvOf(first, first, 1))

NextEdit == Create \/ Update \/ Destroy \/ Toggle \/ Logout \/ Teardown

SpecEdit == InitEdit /\ [][NextEdit]_vars

----------------------------------------------------------------------------
(* Properties of the dispatcher, checked under Spec                         *)

\* a handler of the given type is registered on the view under name
Registered(view, type, name) ==
    \E a \in ViewDict(view) : a.type = type /\ a.target = name
AttrOf(view, type, name) ==
    (CHOOSE a \in ViewDict(view) : a.type = type /\ a.target = name).attr

IsId(seg) == seg \in Digits
LastSeg == req.segs[Len(req.segs)]

C2_PostDispatch ==
    /\ (req.method = "POST" /\ g.user_set) =>
          /\ Len(req.segs) = 0 => calls = <<Call("create", "", None)>>
          /\ (Len(req.segs) = 1 /\ Registered(req.view, "res_action", req.segs[1])) =>
                calls = <<Call(AttrOf(req.view, "res_action", req.segs[1]),
                               "res_action", None)>>
          /\ (Len(req.segs) = 2 /\ IsId(req.segs[1])
                  /\ Registered(req.view, "inst_action", req.segs[2])) =>
                calls = <<Call(AttrOf(req.view, "inst_action", req.segs[2]),
                               "inst_action", ToInt(req.segs[1]))>>
    /\ \A i \in DOMAIN calls :
          calls[i].type # "" =>
              /\ Registered(req.view, calls[i].type, LastSeg)
              /\ calls[i].handler = AttrOf(req.view, calls[i].type, LastSeg)
              /\ calls[i].type \in {"res_data", "inst_data"} => req.method = "GET"
              /\ calls[i].type \in {"res_action", "inst_action"} => req.method = "POST"

\* POST /probe/1/touch reached the instance-action handler with key 1
C2_Witness ==
    /\ req.method = "POST" /\ req.view = "probe" /\ req.segs = <<"1", "touch">>
    /\ calls = <<Call("touch", "inst_action", 1)>>
    /\ resp.status = 200

\* the retrieve of the instance a request addressed, sent without credentials
RetrieveAgain(d, r) == Serve(d, RequestOf("GET", r.view, r.segs, Absent, Absent, NoBody), NoEnv)

UnregisteredName ==
    \/ /\ req.method = "GET"
       /\ \/ Len(req.segs) = 1 /\ ~IsId(req.segs[1])
                /\ ~Registered(req.view, "res_data", req.segs[1])
          \/ Len(req.segs) = 2 /\ ~Registered(req.view, "inst_data", req.segs[2])
    \/ /\ req.method = "POST"
       /\ \/ Len(req.segs) = 1 /\ ~Registered(req.view, "res_action", req.segs[1])
          \/ Len(req.segs) = 2 /\ ~Registered(req.view, "inst_action", req.segs[2])

\* C4: a GET or POST whose handler name is not registered on the view for that
\* kind of handler is answered not_found with status 404.
C4_UnregisteredIsNotFound ==
    (g.user_set /\ UnregisteredName) =>
        resp.status = 404 /\ resp.body.type = "not_found"

\* the path of the request fits a route register_view added
OnRoute == \E i \in DOMAIN UrlRules : PathFits(UrlRules[i], req.segs)

\* C5: an OPTIONS request on a registered route is answered by the view's
\* preflight handler with the static CORS headers, and no other handler runs.
C5_PreflightByView ==
    (req.method = "OPTIONS" /\ OnRoute) =>
        /\ calls = <<Call("option", "", None)>>
        /\ resp.headers = CorsHeaders

\* the session the auth-token header of a request names in store d
Presented(d, r) == {x \in d.sessions : x.token = b64decode(r.auth.val).bytes}

\* C6 as stated: the current user is null when the header is absent, the
\* session's user when the header decodes to a stored token, and every other
\* header that is present is refused with auth_failed (401), no handler run.
C6_PresentHeaderResolvesOrFails ==
    [][(Idle /\ g'.params_set) =>
          /\ ~req'.auth.present => (g'.user_set /\ g'.user = None)
          /\ (req'.auth.present /\ ~b64decode(req'.auth.val).err
                  /\ Presented(db, req') # {}) =>
                (g'.user_set /\ \A x \in Presented(db, req') : g'.user = x.user)
          /\ (req'.auth.present
                  /\ (b64decode(req'.auth.val).err \/ Presented(db, req') = {})) =>
                /\ resp'.status = 401 /\ resp'.body.type = "auth_failed"
                /\ calls' = <<>>]_vars

\* the header is absent, or holds nothing but characters base64 discards
NoToken(r) ==
    \/ ~r.auth.present
    \/ ~b64decode(r.auth.val).err /\ b64decode(r.auth.val).bytes = <<>>

\* C6: the dispatcher sets the current user before any handler runs.  It is
\* null when the header is absent or decodes to the empty token; the user of
\* the session (null once that user is deleted) when the header decodes to a
\* stored token; a header that cannot be decoded, or decodes to a token that
\* is not stored, is refused with auth_failed (401): no handler runs and the
\* store is as before.
C6_CurrentUser ==
    [][(Idle /\ g'.params_set) =>
          /\ calls' # <<>> => g'.user_set
          /\ NoToken(req') => (g'.user_set /\ g'.user = None)
          /\ (~NoToken(req') /\ ~b64decode(req'.auth.val).err
                  /\ Presented(db, req') # {}) =>
                (g'.user_set /\ \A x \in Presented(db, req') : g'.user = x.user)
          /\ (~NoToken(req')
                  /\ (b64decode(req'.auth.val).err \/ Presented(db, req') = {})) =>
                /\ resp'.status = 401 /\ resp'.body.type = "auth_failed"
                /\ ~g'.user_set /\ calls' = <<>> /\ db' = db]_vars

\* a header of characters that are not base64 was taken for no header: the
\* request went on to its handler as an anonymous one
C6_Witness ==
    /\ req.auth = TextOf(TRUE, <<Junk>>)
    /\ g.user_set /\ g.user = None
    /\ calls = <<Call("list", "", None)>>
    /\ resp.status = 200

\* C7: no exception leaves dispatch_request.  An APIError raised while the
\* parameters are parsed, the user is authenticated or the handler runs is
\* answered with its own status and the body {status: "failed", type,
\* context}; any other exception with status 400, type "exception" and the
\* name of its class.  Every request gets a response, and its handler is
\* invoked at most once.
C7_NoExceptionEscapes ==
    ~Idle =>
        /\ resp.status \in {200, 400, 401, 403, 404, 405}
        /\ Len(calls) <= 1
        /\ (exc.raised /\ exc.api) =>
              /\ resp.status = exc.status
              /\ resp.body = JsonBody("failed", exc.type, "", exc.ctx)
        /\ (exc.raised /\ ~exc.api) =>
              /\ resp.status = 400
              /\ resp.body.status = "failed" /\ resp.body.type = "exception"
              /\ resp.body.exception_type = exc.exc
        /\ (~exc.raised /\ resp.by = "view") =>
              resp.status = 200 /\ resp.body.status \in {"success", ""}

\* an exception that is no APIError (a KeyError) was answered with 400
C7_Witness ==
    /\ exc.raised /\ ~exc.api /\ exc.exc = "KeyError"
    /\ resp.status = 400 /\ resp.body.exception_type = "KeyError"

----------------------------------------------------------------------------
(* Properties of the query pipeline, checked under SpecQuery                *)

IsPrefix(a, b) == Len(a) <= Len(b) /\ a = SubSeq(b, 1, Len(a))

\* the place of a query method in the order filter, offset, limit, order_by
OpRank(op) ==
    CASE op = "filter" -> 1 [] op = "offset" -> 2 [] op = "limit" -> 3 [] OTHER -> 4

\* C8: filter_user calls its stages in the order filter, pagination,
\* ordering, whatever keys the Request Filter Parameters hold and in whatever
\* order the keys appear (a stage that raises ends the pipeline); the query it
\* returns is built and not executed.
C8_FixedStageOrder ==
    built.ran =>
        /\ IsPrefix(built.stages, <<"filter_handler", "pagination_handler", "ordering_handler">>)
        /\ ~built.err.raised => Len(built.stages) = 3
        /\ \A i, j \in DOMAIN built.q.ops :
              i < j => OpRank(built.q.ops[i]) < OpRank(built.q.ops[j])
        /\ ~built.q.executed

\* every key was sent, limit first, and the three stages ran in their order
C8_Witness ==
    /\ built.ran
    /\ g.json_params.keys = <<"limit", "query", "order", "offset">>
    /\ g.json_params.query # <<>>
    /\ built.stages = <<"filter_handler", "pagination_handler", "ordering_handler">>
    /\ built.q.ops = <<"filter", "offset", "limit">>

\* what the list handler returns for each row of a sequence of rows
Dumped(rows) == [i \in DOMAIN rows |-> dump_data_user(rows[i])]

\* the rows of the query built, had it no OFFSET and no LIMIT
Unpaged == Dumped(Rows([built.q EXCEPT !.offset = Unset, !.limit = Unset], db))

SentOffset == IF Has(g.json_params, "offset") THEN g.json_params.offset ELSE 0
Remaining == IF Len(Unpaged) > SentOffset THEN Len(Unpaged) - SentOffset ELSE 0

\* C9: pagination applies offset, then limit, each only if present.  The rows
\* returned are those after the first offset rows (all of them when offset is
\* absent or 0), cut to the first limit rows when limit is present, so that
\* limit 0 returns no row; an absent limit cuts nothing.
C9_Pagination ==
    (built.ran /\ resp.status = 200) =>
        /\ built.q.offset = IF Has(g.json_params, "offset")
                            THEN SetTo(g.json_params.offset) ELSE Unset
        /\ built.q.limit = IF Has(g.json_params, "limit")
                           THEN SetTo(g.json_params.limit) ELSE Unset
        /\ Len(resp.data) = IF Has(g.json_params, "limit") /\ g.json_params.limit < Remaining
                            THEN g.json_params.limit ELSE Remaining
        /\ \A i \in DOMAIN resp.data : resp.data[i] = Unpaged[i + SentOffset]

\* with three users stored, offset 1 and limit 1 returned the second one alone
C9_Witness ==
    /\ built.ran /\ resp.status = 200
    /\ Cardinality(db.users) = 3
    /\ g.json_params.keys = <<"limit", "offset">>
    /\ g.json_params.offset = 1 /\ g.json_params.limit = 1
    /\ Len(resp.data) = 1 /\ resp.data[1].id = 2

\* the stored user a returned row stands for
StoredRow(dumped) == CHOOSE u \in db.users : u.id = dumped.id

\* rows a and b are in the order the pairs ask for: they agree on every pair,
\* or the first pair they differ on puts a first
InOrder(a, b, order) ==
    \/ \A k \in DOMAIN order : SortKey(a, order[k].path[1]) = SortKey(b, order[k].path[1])
    \/ \E k \in DOMAIN order :
          /\ \A m \in 1..(k - 1) :
                SortKey(a, order[m].path[1]) = SortKey(b, order[m].path[1])
          /\ IF order[k].asc
             THEN SortKey(a, order[k].path[1]) < SortKey(b, order[k].path[1])
             ELSE SortKey(a, order[k].path[1]) > SortKey(b, order[k].path[1])

\* C10: the ordering stage adds one sort term per (path, ascending) pair,
\* ascending for true and descending for false, in the order of the pairs, so
\* that an earlier pair decides before a later one; without order, or with an
\* empty one, the query gets no sort term.
C10_Ordering ==
    (built.ran /\ ~built.err.raised) =>
        IF ~Has(g.json_params, "order") \/ g.json_params.order = <<>>
        THEN built.q.order_by = <<>> /\ "order_by" \notin Range(built.q.ops)
        ELSE /\ built.q.order_by =
                   [k \in DOMAIN g.json_params.order |->
                       [column |-> g.json_params.order[k].path[1],
                        asc    |-> g.json_params.order[k].asc]]
             /\ resp.status = 200
             /\ \A i, j \in DOMAIN resp.data :
                   i < j => InOrder(StoredRow(resp.data[i]), StoredRow(resp.data[j]),
                                    g.json_params.order)

\* three users sorted by join_date descending, then username ascending: the
\* first two joined together and the name decided, against their ids
C10_Witness ==
    /\ built.ran /\ resp.status = 200
    /\ g.json_params.order = <<Term(<<"join_date">>, FALSE), Term(<<"username">>, TRUE)>>
    /\ Len(resp.data) = 3
    /\ resp.data[1].join_date = resp.data[2].join_date
    /\ resp.data[1].id > resp.data[2].id
    /\ resp.data[3].join_date < resp.data[2].join_date

\* the Filter Query a list request sent (params.get("query") is not empty)
SentQuery == Has(g.json_params, "query") /\ g.json_params.query # <<>>

RECURSIVE UnknownTokens(_), UnknownTokensFrom(_, _)
\* the first elements that are neither a comparison nor a logical operator, of
\* the nodes reached from the root through logical operators, left to right
UnknownTokens(query) ==
    IF query[1] \in CompFilters THEN <<>>
    ELSE IF query[1] \in LogicalFilters THEN UnknownTokensFrom(query, 2)
    ELSE <<query[1]>>
UnknownTokensFrom(query, i) ==
    IF i > Len(query) THEN <<>>
    ELSE UnknownTokens(query[i]) \o UnknownTokensFrom(query, i + 1)

RECURSIVE NamesFields(_, _)
\* every comparison reached through logical operators names a column
NamesFields(query, model) ==
    IF query[1] \in CompFilters THEN getattr_keypath(model, query[2]).found
    ELSE IF query[1] \in LogicalFilters
    THEN \A i \in 2..Len(query) : NamesFields(query[i], model)
    ELSE TRUE

\* the pipeline stopped in its first stage: nothing was applied to the query,
\* no query was run and the list handler returned no data
AbortedInFilter ==
    /\ built.err.raised
    /\ built.stages = <<"filter_handler">>
    /\ built.q = NewQuery("users")
    /\ resp.status = 400 /\ resp.data = <<>>

RECURSIVE WellFormed(_, _, _)
\* the query is built only from comparison filters, each with a path that
\* names a column and a literal, and logical filters, each with one or more
\* nested queries (with exactly one for "not" when one_not is set)
WellFormed(query, model, one_not) ==
    IF query[1] \in CompFilters
    THEN Len(query) = 3 /\ getattr_keypath(model, query[2]).found
    ELSE /\ query[1] \in LogicalFilters
         /\ Len(query) >= 2
         /\ (one_not /\ query[1] = "not") => Len(query) = 2
         /\ \A i \in 2..Len(query) : WellFormed(query[i], model, one_not)

RECURSIVE Holds(_, _)
\* the predicate tree evaluated directly on a row: a comparison compares the
\* value of the field with the literal, and joins all, or some, not none of
\* the nested predicates
Holds(query, row) ==
    IF query[1] \in CompFilters
    THEN LET text == query[3].t = "str"
             v == row[query[2][1]]
             w == IF text THEN query[3].s ELSE query[3].i
             rv == IF text THEN NameRank(v) ELSE v
             rw == IF text THEN NameRank(w) ELSE w
         IN  CASE query[1] = "eq"  -> v = w
               [] query[1] = "ne"  -> v # w
               [] query[1] = "gt"  -> rv > rw
               [] query[1] = "gte" -> rv >= rw
               [] query[1] = "lt"  -> rv < rw
               [] query[1] = "lte" -> rv <= rw
               [] OTHER            -> text /\ Contains(v, w)
    ELSE CASE query[1] = "and" -> \A i \in 2..Len(query) : Holds(query[i], row)
           [] query[1] = "or"  -> \E i \in 2..Len(query) : Holds(query[i], row)
           [] OTHER            -> ~Holds(query[2], row)

\* the filter stage built one expression, and the rows it selects are the rows
\* the predicate tree holds for; sent alone, the query returns those rows
BuiltAsEvaluated ==
    /\ Len(built.q.where) = 1
    /\ {u \in db.users : Eval(built.q.where[1], u)}
          = {u \in db.users : Holds(g.json_params.query, u)}
    /\ g.json_params.keys = <<"query">> =>
          /\ resp.status = 200
          /\ {resp.data[i].id : i \in DOMAIN resp.data}
                = {u.id : u \in {o \in db.users : Holds(g.json_params.query, o)}}

C13_NewestTwo ==
    (/\ built.ran
     /\ Range(g.json_params.keys) = {"order", "limit"}
     /\ g.json_params.order = <<Term(<<"join_date">>, FALSE)>>
     /\ g.json_params.limit = 2) =>
        /\ resp.status = 200
        /\ Len(resp.data) <= 2
        /\ \A i, j \in DOMAIN resp.data : i < j => resp.data[i].join_date >= resp.data[j].join_date

RECURSIVE NamesMissingField(_, _)
\* some comparison reached through logical operators names no column
NamesMissingField(query, model) ==
    IF query[1] \in CompFilters THEN query[2] \notin {<<c>> : c \in Columns(model)}
    ELSE IF query[1] \in LogicalFilters
    THEN \E i \in 2..Len(query) : NamesMissingField(query[i], model)
    ELSE FALSE

\* some order pair names no column
OrdersByMissingField(model) ==
    /\ Has(g.json_params, "order")
    /\ \E k \in DOMAIN g.json_params.order :
          g.json_params.order[k].path \notin {<<c>> : c \in Columns(model)}

\* C25: a field path with a missing component resolves to null without an
\* exception, so that a list request whose Filter Query has a comparison on a
\* nonexistent field, or whose order has a pair on one, does not fail with the
\* exception of an operation on null; with nothing sent but such an order the
\* request succeeds.
C25_MissingFieldDoesNotFail ==
    (built.ran /\ (OrdersByMissingField("users")
                    \/ (SentQuery /\ NamesMissingField(g.json_params.query, "users")))) =>
        /\ ~(exc.raised /\ ~exc.api /\ exc.exc \in {"TypeError", "AttributeError"})
        /\ g.json_params.keys = <<"order">> => resp.status = 200

\* the stored users the Filter Query sent selects (all without one)
Selected == {u \in db.users : SentQuery => Holds(g.json_params.query, u)}

\* row a comes strictly before row b in the order the pairs ask for
ComesBefore(a, b, order) == InOrder(a, b, order) /\ ~InOrder(b, a, order)

\* C28: with both order and offset or limit sent, the rows returned are the
\* slice [offset, offset + limit) of the selected rows sorted by order: the
\* window is taken over the ordered sequence.
C28_WindowOverOrdered ==
    (/\ built.ran
     /\ Has(g.json_params, "order") /\ g.json_params.order # <<>>
     /\ ~OrdersByMissingField("users")
     /\ Has(g.json_params, "offset") \/ Has(g.json_params, "limit")
     /\ SentQuery => WellFormed(g.json_params.query, "users", TRUE)) =>
        LET order == g.json_params.order
            left == IF Cardinality(Selected) > SentOffset
                    THEN Cardinality(Selected) - SentOffset ELSE 0
        IN  /\ resp.status = 200
            /\ Len(resp.data) = IF Has(g.json_params, "limit") /\ g.json_params.limit < left
                                THEN g.json_params.limit ELSE left
            /\ \A i \in DOMAIN resp.data :
                  /\ StoredRow(resp.data[i]) \in Selected
                  /\ resp.data[i] = dump_data_user(StoredRow(resp.data[i]))
                  /\ Cardinality({u \in Selected : ComesBefore(u, StoredRow(resp.data[i]), order)})
                        <= SentOffset + i - 1
                  /\ Cardinality({u \in Selected : InOrder(u, StoredRow(resp.data[i]), order)})
                        >= SentOffset + i
            /\ \A i, j \in DOMAIN resp.data : i < j => resp.data[i].id # resp.data[j].id

----------------------------------------------------------------------------
(* Properties of the schema adapter, checked under SpecSchema *)

\* a retrieve of a paper or a note answered with its dump
DumpReturned ==
    /\ req.method = "GET" /\ req.view \in {"papers", "notes"}
    /\ resp.status = 200 /\ Len(resp.data) = 1

RECURSIVE FollowsTree(_, _, _)
\* every relationship field of the dump that is serialized in full, at any
\* depth, has its path from the root (at, then its name) among the key paths
\* of the inclusion tree
FollowsTree(dump, at, tree) ==
    \A name \in DOMAIN dump.nested :
        dump.nested[name].form \in {"one", "many"} =>
            /\ Append(at, name) \in tree
            /\ \A i \in DOMAIN dump.nested[name].items :
                   FollowsTree(dump.nested[name].items[i], Append(at, name), tree)

\* C14: in the dump a retrieve returns, at every nesting depth a relationship
\* field is serialized in full only if its complete path from the root entity
\* is a key path of the inclusion tree built from the request's `with`; every
\* other relationship field is collapsed to the related key or keys.
C14_ExpandedOnlyIfRequested ==
    DumpReturned => FollowsTree(resp.data[1], <<>>, nested_fields_of(g.json_params.with))

\* every listed path has the full chain of its components among the key paths
\* of the tree
HoldsChains(nested, tree) ==
    \A i \in DOMAIN nested :
        \A k \in 1..Len(nested[i]) : SubSeq(nested[i], 1, k) \in tree

\* C15: the inclusion tree dump_data builds from the `with` paths of a
\* retrieve contains, for every listed path, the full chain of its components
\* as nested keys, whatever the order of the paths and also when one listed
\* path is a prefix of another.
C15_TreeHoldsEveryListedPath ==
    DumpReturned =>
        HoldsChains(g.json_params.with, nested_fields_of(g.json_params.with))

\* the to-one relationship fields a body of a note sends as a key: the model
\* and the key.  The author of a create is the User instance the view puts in.
KeysSent(r) ==
    {<<"papers", r.body.paper>> : x \in {1} \cap {IF "paper" \in r.body.has /\ r.body.paper # None
                                                  THEN 1 ELSE 0}}
    \cup {<<"users", r.body.author>> : x \in {1} \cap {IF r.method = "PATCH" /\ "author" \in r.body.has
                                                        THEN 1 ELSE 0}}

\* the keys among them that no stored entity has
KeysMissing(d, r) == {k \in KeysSent(r) : \A row \in d[k[1]] : row.id # k[2]}

\* the request r, served on the store d, gets as far as loading a note with
\* keys in it: a create of an authenticated user, an update of a stored note
LoadsNoteKeys(d, r) ==
    /\ r.view = "notes" /\ KeysSent(r) # {}
    /\ \/ r.method = "POST" /\ r.segs = <<>> /\ Authenticate(d, r.auth).user # None
       \/ r.method = "PATCH" /\ \E n \in d.notes : <<n.id>> = <<ToInt(r.segs[1])>>

\* the note the request r wrote in the store d (after the request)
NoteWritten(before, d, r) ==
    CHOOSE n \in d.notes :
        n.id = IF r.method = "POST" THEN before.next_note ELSE ToInt(r.segs[1])

KeyFields(schema, data) ==
    {f \in NestedFields(schema) :
        /\ f.name \in data.has \ DumpOnly(schema)
        /\ f.many \/ data[f.name] # None}

C18_DumpThenLoadKeepsFields ==
    trip.ran =>
        /\ ~trip.err.raised
        /\ \A name \in ScalarNames(trip.schema) \ DumpOnly(trip.schema) :
               trip.loaded[name] = RowOf(db, trip.schema, trip.id)[name]

----------------------------------------------------------------------------
(* Properties of the user views, checked under Spec *)

\* a create or a partial update of a user whose payload has a value for an
\* output-only field of the schema
WritesOutputOnly ==
    /\ req.view = "users"
    /\ \/ req.method = "POST" /\ req.segs = <<>>
       \/ req.method = "PATCH" /\ Len(req.segs) = 1
    /\ req.body.has \cap DumpOnly("users") # {}

\* C17: a create or partial update of a user whose payload supplies a value
\* for an output-only field (id, join_date) fails with an error: it is never
\* answered as a success.
C17_OutputOnlyWriteFails ==
    WritesOutputOnly => resp.status >= 400

\* r is a login that reaches the handler with a username and a password
IsLogin(d, r) ==
    /\ r.method = "POST" /\ r.view = "users" /\ r.segs = <<"login">>
    /\ r.body.valid /\ Credentials \subseteq r.body.has
    /\ ~ParseJsonParams(r.json_params).err.raised
    /\ ~Authenticate(d, r.auth).err.raised

\* the stored users the credentials of r match
Matching(d, r) ==
    {u \in d.users : /\ u.username = r.body.username
                     /\ u.password = calc_password(r.body.password)}

\* the login failed with incorrect_credential and created no session
LoginRefused ==
    /\ resp'.status = 401 /\ resp'.body.type = "incorrect_credential"
    /\ db'.sessions = db.sessions

\* the login succeeded: exactly one new session, of the matching user, whose
\* token is the one returned and differs from every token stored before
LoginSucceeded ==
    /\ resp'.status = 200
    /\ \E s \in db'.sessions \ db.sessions :
          /\ db'.sessions = db.sessions \cup {s}
          /\ s.user \in {u.id : u \in Matching(db, req')}
          /\ resp'.token = b64encode(s.token)
          /\ \A x \in db.sessions : x.token # s.token

\* the step is the login req' served with os.urandom returning token
Drew(token) ==
    /\ resp' = Serve(db, req', EnvOf(token, token, 1)).resp
    /\ db' = Serve(db, req', EnvOf(token, token, 1)).db

LogoutWith(d, token, first) ==
    Serve(d, RequestOf("POST", "users", <<"logout">>, TextOf(TRUE, token), Absent, NoBody),
          EnvOf(first, first, 1))

\* the logout that follows the login just answered is answered 200
LogoutFollows ==
    \A first \in {x.token : x \in db'.sessions} :
        LogoutWith(db', resp'.token, first).resp.status = 200

IsLogout(r) == r.method = "POST" /\ r.view = "users" /\ r.segs = <<"logout">>

\* C26: a logout answered 200 removes exactly the session whose token the
\* auth-token header of the request presents; every other stored session, of
\* the same user or of another, is left as it was.
C26_LogoutRemovesPresented ==
    [][ Idle /\ IsLogout(req') /\ resp'.status = 200 =>
          /\ Presented(db, req') # {}
          /\ db'.sessions = db.sessions \ Presented(db, req') ]_vars

\* a request presenting token t, served on the store d
Presenting(d, t) ==
    Serve(d, RequestOf("GET", "users", <<>>, TextOf(TRUE, b64encode(t)), Absent, NoBody),
          NoEnv)

\* C27: through logins and logouts, once a logout presenting token t has been
\* answered 200 a request presenting t fails with auth_failed (401), and the
\* token of a stored session stays valid as long as no logout presenting it
\* has been answered 200.
C27_ValidUntilOwnLogout ==
    [][ Idle /\ (IsLogout(req') \/ IsLogin(db, req')) =>
          \A x \in db.sessions :
              IF IsLogout(req') /\ resp'.status = 200 /\ x \in Presented(db, req')
              THEN /\ Presenting(db', x.token).resp.status = 401
                   /\ Presenting(db', x.token).resp.body.type = "auth_failed"
              ELSE /\ x \in db'.sessions
                   /\ Presenting(db', x.token).resp.status = 200 ]_vars

\* the rows of the committed store
Committed(d) == <<d.users, d.sessions, d.papers, d.notes>>

\* the handlers that commit
Committing == {"create", "partial_update", "destroy", "login", "logout",
               "toggle_collect_status"}

\* C22: the dispatcher never commits.  The committed store changes during a
\* request only when one of the committing handlers ran and the request was
\* answered as a success; every request that ends in an error response
\* leaves the committed store exactly as it was before the request.
C22_OnlyHandlersCommit ==
    [][ Idle /\ req' # NoRequest =>
          /\ resp'.status >= 400 => Committed(db') = Committed(db)
          /\ Committed(db') # Committed(db) =>
                /\ Len(calls') = 1 /\ calls'[1].handler \in Committing
                /\ resp'.status = 200 ]_vars

\* a create that failed at its commit (the username is taken) with users
\* stored
C22_Witness ==
    /\ req.method = "POST" /\ req.view = "users" /\ req.segs = <<>>
    /\ calls = <<Call("create", "", None)>>
    /\ resp.status = 400 /\ resp.body.type = "logic"
    /\ \E u \in db.users : u.username = req.body.username

----------------------------------------------------------------------------
(* Properties of the writing handlers of papers and notes, checked under   *)
(* SpecEdit                                                                *)

\* r asks for toggle_collect_status of a stored paper with GET, presenting
\* the token of a session of a stored user
TogglesPaper(d, r) ==
    /\ r.method = "GET" /\ r.view = "papers"
    /\ Len(r.segs) = 2 /\ r.segs[2] = "toggle_collect_status"
    /\ \E x \in d.papers : <<x.id>> = <<ToInt(r.segs[1])>>
    /\ \E u \in d.users : u.id = Authenticate(d, r.auth).user

\* C21: GET /papers/<id>/toggle_collect_status, sent twice in succession by
\* the same authenticated user for a stored paper, toggles the collection
\* each time: the first answer is a success with collected true, the second
\* a success with collected false, and the store is then as at the start.
C21_ToggleTwice ==
    [][ Idle /\ TogglesPaper(db, req') =>
          /\ resp'.status = 200 /\ resp'.data = <<[collected |-> TRUE]>>
          /\ Serve(db', req', NoEnv).resp.status = 200
          /\ Serve(db', req', NoEnv).resp.data = <<[collected |-> FALSE]>>
          /\ Serve(db', req', NoEnv).db = db ]_vars

----------------------------------------------------------------------------
(* Properties of check_perm, checked under SpecPerm *)

\* at least one rule of the call authorizes the user
SomeRuleAuthorizes ==
    \E i \in DOMAIN permcall.rules : handle_perm_rule(permcall.rules[i], permcall.user)

\* C23: check_perm called for a logged-in user with a non-empty sequence of
\* rules authorizes exactly when at least one rule authorizes the user; when
\* none does it raises perm_denied (403) if throw is set and returns false
\* if not.  So a single User rule naming one user denies every other.
C23_TupleAuthorizesIffSomeRule ==
    permcall.ran /\ permcall.user # None /\ permcall.rules # <<>> =>
        IF SomeRuleAuthorizes
        THEN ~permcall.err.raised /\ permcall.authorized
        ELSE IF permcall.throw
        THEN permcall.err = APIError(403, "perm_denied", "")
        ELSE ~permcall.err.raised /\ ~permcall.authorized


----------------------------------------------------------------------------
(* Properties of the json_params parameter, checked under Spec *)

\* the request was handed to a view's dispatch_request
Dispatched == req # NoRequest /\ resp.by = "view"

\* a text that is the output of create_json_param, or that output with its
\* escapes undone by the framework
IsJsonParam(text) ==
    /\ Len(text) = 1 /\ text[1].c = "group" /\ text[1].q <= 1
    /\ text[1].chunk.kind = "json"
SentDoc(text) == text[1].chunk.doc

\* the request was refused with bad_json_params before anything else was done
RefusedParams ==
    /\ resp.status = 400 /\ resp.body = JsonBody("failed", "bad_json_params", "", "")
    /\ ~g.params_set /\ ~g.user_set /\ calls = <<>>

InAlphabet(text) == SelectSeq(text, LAMBDA s : s.c # "junk" \/ s.q > 0)

----------------------------------------------------------------------------
(* Properties of the permission checks of the views, checked under SpecEdit *)

\* the request was refused because nobody is logged in: the store is as before
LoginRequired ==
    /\ resp'.status = 401 /\ resp'.body = JsonBody("failed", "login_required", "", "")
    /\ db' = db

\* C29: every PATCH and DELETE on a user, a paper or a note that is served
\* with the current user null is rejected with login_required (401) and
\* leaves the store unchanged.
C29_AnonymousCannotChange ==
    [][ (/\ Idle
         /\ req'.method \in {"PATCH", "DELETE"}
         /\ req'.view \in {"users", "papers", "notes"}
         /\ g'.user_set /\ g'.user = None) => LoginRequired ]_vars

\* the request is routed to a handler decorated with auth_required()
Guarded(r) ==
    /\ r.method = "POST"
    /\ \/ r.view \in {"papers", "notes"} /\ r.segs = <<>>
       \/ r.view \in {"papers", "notes"} /\ Len(r.segs) = 2
             /\ r.segs[1] \in Digits /\ r.segs[2] = "toggle_collect_status"
       \/ r.view = "users" /\ r.segs = <<"logout">>

\* C30: a handler decorated with auth_required() without rules (note and
\* paper create, logout, toggle_collect_status) runs its body exactly when the
\* current user is not null: an anonymous request is rejected with
\* login_required (401) with the store unchanged, and a request of any
\* logged-in user is let through to the body, never answered login_required
\* or perm_denied.
C30_BodyRunsIffLoggedIn ==
    [][ (Idle /\ Guarded(req') /\ g'.user_set) =>
          IF g'.user = None
          THEN LoginRequired
          ELSE /\ calls' # <<>>
               /\ resp'.status \notin {401, 403}
               /\ resp'.body.type \notin {"login_required", "perm_denied"} ]_vars

\* a logged-in user created a note: the body ran and the note is stored
C30_Witness ==
    /\ req.method = "POST" /\ req.view = "notes" /\ req.segs = <<>>
    /\ g.user_set /\ g.user # None
    /\ resp.status = 200 /\ Len(resp.data) = 1
    /\ \E x \in db.notes : x.id = resp.data[1].fields.id /\ x.author = g.user
========================================================================
